---- MODULE Spec2Model ----
(***************************************************************************)
(* A model of the automation engine of the Interchange Python extension:   *)
(* src/extend_python/python_api/automation/manager.py.                     *)
(*                                                                         *)
(*   FileEventHandler   the per-folder event queue and its flush threads   *)
(*   AutomationManager  watch folders, observers, start/stop, statistics   *)
(*                                                                         *)
(* Time is counted in whole seconds.  A block of code that runs under a    *)
(* handler's `with self.processing_lock:` is one action; the calls of the  *)
(* manager are followed statement by statement.  None is written NoTime    *)
(* for a timestamp and "None" for a return value.                          *)
(***************************************************************************)
EXTENDS Integers, Sequences, FiniteSets, TLC

\* ------------------------------------------------------------- bounds
MaxTime == 4          \* the clock runs from 0 to MaxTime
MaxEvents == 3        \* queue entries (and so flush threads) of a handler
MaxBurstTime == 3     \* the clock's last second where MaxEvents entries are followed
MaxCalls == 3         \* process_single_file calls entered statement by statement
MaxResets == 1        \* reset_statistics calls
MaxHandlers == 2      \* FileEventHandler objects (observers) created in a run
MaxWatchTime == 1     \* the clock's last second where only the watcher set is followed
MaxLifeTime == 2      \* the clock's last second where the whole manager is followed
MaxLifeEvents == 2    \* queue entries created in the runs followed up to MaxTime
MaxManagerEvents == 1 \* queue entries created in the runs of the whole manager
MaxProcessCalls == 2  \* process_single_file calls made one after the other
MaxBatchFiles == 5    \* paths of a batch_import_files call
MaxTimedCalls == 102  \* process_single_file calls of one long run
MaxProgressFiles == 10  \* paths of a batch_import_files call that logs its progress

\* --------------------------------------------------- program constants
SleepSeconds == 2     \* time.sleep(2) in _process_queue
NoTime == -1          \* None, as a timestamp
MaxProcessingTimes == 100  \* "Keep only last 100 processing times"

VARIABLES
    now,               \* the wall clock: datetime.now(), time.time()
    \* FileEventHandler objects, one per started observer
    nhandlers,         \* how many handlers have been constructed
    handler_category,  \* handler -> self.category
    processing_queue,  \* handler -> self.processing_queue
    \* flush threads: threading.Thread(target=self._process_queue)
    nextId,            \* identity of the next flush thread, and of the queue
                       \* entries appended until it is started
    tasks,             \* thread -> [pc, handler, wake, items]
    \* history
    coalesced,         \* the queued entries for which a later raw event was dropped
    handed,            \* thread -> the process_single_file calls it has entered
    \* AutomationManager: statistics
    statistics,        \* self.statistics
    stats_gen,         \* which dict self.statistics is: reset_statistics builds a new one
    \* the calls in progress, statement by statement
    calls,             \* thread -> its call: its position pc and its locals
    started,           \* calls entered so far
    completed,         \* calls returned so far (history)
    \* AutomationManager: the watcher set
    existing,          \* the folders os.path.exists finds (absolute paths)
    watch_folders,     \* self.config['watch_folders']
    saved_folders,     \* 'watch_folders' of the document save_configuration wrote last
    observers,         \* self.observers: absolute path -> [id: the observer, named by
                       \* its handler; slot: the place of the key in the dict]
    nentries,          \* the places of the dict self.observers taken since it was
                       \* built or cleared
    running,           \* the observers whose thread is alive: started, not stopped
    is_monitoring,     \* self.is_monitoring
    last_call          \* the call that returned or raised last: [op, ret, msg], msg
                       \* what it logged

debVars == <<nhandlers, handler_category, processing_queue, nextId, tasks, coalesced, handed>>
statVars == <<statistics, stats_gen>>
callVars == <<calls, started, completed>>
mgrVars == <<existing, watch_folders, saved_folders, observers, nentries, running,
            is_monitoring, last_call>>
vars == <<now, debVars, statVars, callVars, mgrVars>>

HandlerIds == 1..MaxHandlers
TaskIds == 1..MaxEvents
EventPaths == {"p1", "p2"}
Categories == {"default", "characters", "archive"}
Callers == 1..2
\* The threads that can be inside process_single_file: the manual callers
\* and the flush threads, the flush thread t as FlushCaller(t).
FlushCaller(t) == 2 + t
Threads == Callers \cup {FlushCaller(t) : t \in TaskIds}

Range(s) == {s[i] : i \in DOMAIN s}

\* A dict as a function: d.get(k, default) and d[k] = v.
Get(d, k, default) == IF k \in DOMAIN d THEN d[k] ELSE default
Put(d, k, v) == [x \in DOMAIN d \cup {k} |-> IF x = k THEN v ELSE d[x]]
EmptyDict == [x \in {} |-> 0]

\* ------------------------------------------------------ configuration
\* config['import_rules'] as load_configuration leaves it: the rules of
\* _get_default_config, and one rule of the user's document that has
\* auto_import switched off.
ImportRules ==
    [c \in {"characters", "environments", "props", "archive"} |->
        [destination |-> CASE c = "characters" -> "/Game/Characters/"
                           [] c = "environments" -> "/Game/Environments/"
                           [] c = "props" -> "/Game/Props/"
                           [] OTHER -> "/Game/Archive/",
         file_patterns |-> CASE c = "characters" -> <<"*character*", "*char*">>
                             [] c = "environments" -> <<"*env*", "*environment*", "*level*">>
                             [] c = "props" -> <<"*prop*", "*object*">>
                             [] OTHER -> <<>>,
         auto_import |-> (c # "archive")]]

\* ------------------------------------------------- process_single_file
\* What one call meets outside the manager: the result of
\* _perform_quality_checks (os.path.getsize can raise), of
\* _matches_file_patterns and of translator.import_file.
Worlds ==
    [quality : {"pass", "fail", "raise"},
     matches : BOOLEAN,
     import : {"True", "False", "raise"}]

\* The files the observers report, and what a call for each of them meets:
\* p1 is a valid file the backend imports, p2 a file the backend refuses.
FileWorld(path) ==
    IF path = "p1"
    THEN [quality |-> "pass", matches |-> TRUE, import |-> "True"]
    ELSE [quality |-> "pass", matches |-> TRUE, import |-> "False"]

\* A faulty call: the auto_import test is missing.
ProcessOutcome_NoAutoImportTest(category, w) ==
    IF category \notin DOMAIN ImportRules THEN "no_rule"
    ELSE IF w.quality = "raise" THEN "exception"
    ELSE IF w.quality = "fail" THEN "quality_failed"
    ELSE IF ~w.matches THEN "pattern_miss"
    ELSE IF w.import = "raise" THEN "exception"
    ELSE IF w.import = "True" THEN "success"
    ELSE "import_failed"

\* The branch process_single_file takes, in the order of its tests.
ProcessOutcome(category, w) ==
    IF category \notin DOMAIN ImportRules THEN "no_rule"
    ELSE IF ~ImportRules[category].auto_import THEN "auto_import_off"
    ELSE IF w.quality = "raise" THEN "exception"
    ELSE IF w.quality = "fail" THEN "quality_failed"
    ELSE IF ~w.matches THEN "pattern_miss"
    ELSE IF w.import = "raise" THEN "exception"
    ELSE IF w.import = "True" THEN "success"
    ELSE "import_failed"

\* Faulty counting: a pattern miss counts as a failure; an exception does not.
CountsAsFailed_WithPatternMiss(outcome) ==
    outcome \in {"quality_failed", "import_failed", "exception", "pattern_miss"}
CountsAsFailed_NoException(outcome) == outcome \in {"quality_failed", "import_failed"}
CountsAsFailed_NoQualityFailure(outcome) == outcome \in {"import_failed", "exception"}

CountsAsFailed(outcome) == outcome \in {"quality_failed", "import_failed", "exception"}
CountsAsSuccess(outcome) == outcome = "success"

\* A faulty history: once it holds 100 durations a new one is dropped.
RecordProcessingTime_DropNewest(times, d) ==
    IF Len(times) >= MaxProcessingTimes THEN times ELSE Append(times, d)

\* self.statistics['processing_times'] after the finally block.
RecordProcessingTime(times, d) ==
    LET all == Append(times, d) IN
    IF Len(all) > MaxProcessingTimes
    THEN SubSeq(all, Len(all) - MaxProcessingTimes + 1, Len(all))
    ELSE all

\* A faulty call: a file of a category without a rule is not counted.
ProcessSingleFile_SkipUncounted(st, category, w, t0, ta, t1) ==
    LET o == ProcessOutcome(category, w) IN
    IF o = "no_rule"
    THEN [st EXCEPT !.processing_times = RecordProcessingTime(@, t1 - t0)]
    ELSE [st EXCEPT
            !.total_processed = @ + 1,
            !.last_activity = ta,
            !.files_per_category = Put(@, category, Get(@, category, 0) + 1),
            !.successful_imports = IF CountsAsSuccess(o) THEN @ + 1 ELSE @,
            !.failed_imports = IF CountsAsFailed(o) THEN @ + 1 ELSE @,
            !.processing_times = RecordProcessingTime(@, t1 - t0)]

\* One whole call of process_single_file with no other thread at work
\* on self.statistics: the statistics after it.  The call reads the clock
\* three times: t0 = time.time() at entry (line 312), ta = datetime.now()
\* for last_activity (line 317), t1 = time.time() in the finally block
\* (line 366).
ProcessSingleFile(st, category, w, t0, ta, t1) ==
    LET o == ProcessOutcome(category, w) IN
    [st EXCEPT
        !.total_processed = @ + 1,
        !.last_activity = ta,
        !.files_per_category = Put(@, category, Get(@, category, 0) + 1),
        !.successful_imports = IF CountsAsSuccess(o) THEN @ + 1 ELSE @,
        !.failed_imports = IF CountsAsFailed(o) THEN @ + 1 ELSE @,
        !.processing_times = RecordProcessingTime(@, t1 - t0)]

ProcessSingleFileReturn(category, w) ==
    IF ProcessOutcome(category, w) = "success" THEN "True" ELSE "False"

\* A faulty dict of reset_statistics: start_time is always None.
NewStatistics_NoStart(start) ==
    [total_processed |-> 0, successful_imports |-> 0, failed_imports |-> 0,
     start_time |-> NoTime, last_activity |-> NoTime,
     files_per_category |-> [x \in {} |-> 0], processing_times |-> <<>>]

\* AutomationManager.__init__ and reset_statistics build this dict.
NewStatistics(start) ==
    [total_processed |-> 0, successful_imports |-> 0, failed_imports |-> 0,
     start_time |-> start, last_activity |-> NoTime,
     files_per_category |-> EmptyDict, processing_times |-> <<>>]

\* No process_single_file call in progress on a caller thread.
IdleCall == [pc |-> "idle", category |-> "", t0 |-> 0, reg |-> 0, ref |-> 0, outcome |-> ""]

\* ------------------------------------------------------------- paths
\* A path is the sequence of its components; an absolute path starts
\* with "/".  The process runs in the directory Cwd.
Cwd == <<"/", "w">>
IsAbs(p) == p # <<>> /\ p[1] = "/"

\* os.path.normpath on the components: "." is dropped, ".." removes the
\* component before it (and stays at the root).
RECURSIVE NormParts(_, _)
NormParts(done, rest) ==
    IF rest = <<>> THEN done
    ELSE LET x == Head(rest) IN
         IF x = "." THEN NormParts(done, Tail(rest))
         ELSE IF x = ".."
         THEN NormParts(IF Len(done) > 1 THEN SubSeq(done, 1, Len(done) - 1) ELSE done,
                        Tail(rest))
         ELSE NormParts(Append(done, x), Tail(rest))

\* os.path.abspath: normpath(join(os.getcwd(), path)).
OsPathAbspath(p) == IF IsAbs(p) THEN NormParts(<<"/">>, Tail(p))
                    ELSE NormParts(<<"/">>, Tail(Cwd) \o p)

\* The folder paths the callers pass, and the folders there are at the start.
FolderInputs == {<<"a">>, <<"/", "w", "a">>, <<".", "b">>, <<"gone">>}
InitialFolders == {<<"/", "w", "a">>, <<"/", "w", "b">>}

\* os.path.abspath of each of these paths, computed once.
AbsPathOf == [p \in FolderInputs |-> OsPathAbspath(p)]
AbsPath(p) == AbsPathOf[p]

\* A faulty test: every folder path counts as existing.
PathExists_Always(p) == TRUE

\* os.path.exists for a folder path.
PathExists(p) == AbsPath(p) \in existing

\* The import failed at module level without watchdog: the class
\* FileEventHandler could not be defined.
WATCHDOG_AVAILABLE == TRUE

\* The watcher-set part of AutomationManager.__init__: the configuration
\* document holds no watch folder.
InitManager ==
    /\ existing = InitialFolders
    /\ watch_folders = <<>>
    /\ saved_folders = <<>>
    /\ observers = EmptyDict
    /\ nentries = 0
    /\ running = {}
    /\ is_monitoring = FALSE
    /\ last_call = [op |-> "__init__", ret |-> "None", msg |-> ""]

\* The statistics part of AutomationManager.__init__.
InitStatistics ==
    /\ statistics = NewStatistics(NoTime)
    /\ stats_gen = 0
    /\ calls = [c \in Threads |-> IdleCall]
    /\ started = 0
    /\ completed = 0

\* ---------------------------------------------------- FileEventHandler
QueuedPaths(q) == {q[i].path : i \in DOMAIN q}

\* A faulty membership test: only the newest entry is compared.
AlreadyQueued_LastOnly(q, file_path) == q # <<>> /\ q[Len(q)].path = file_path

\* `file_path not in [item['path'] for item in self.processing_queue]`, negated.
AlreadyQueued(q, file_path) == file_path \in QueuedPaths(q)

\* A thread not started yet, and a thread that has returned.  A thread
\* that an exception has ended has the pc "raised" and keeps the items of
\* its snapshot that it has not handed on.
NoTask == [pc |-> "unarmed", handler |-> 0, wake |-> 0, items |-> <<>>]
DoneTask == [pc |-> "done", handler |-> 0, wake |-> 0, items |-> <<>>]

\* _queue_file_for_processing, all of it under processing_lock: append the
\* entry and start its flush thread, unless the path is queued already.
QueueFileForProcessing(h, file_path, event_type) ==
    LET q == processing_queue[h] IN
    IF ~AlreadyQueued(q, file_path)
    THEN /\ nextId <= MaxEvents
         /\ processing_queue' = [processing_queue EXCEPT ![h] =
                Append(@, [id |-> nextId, path |-> file_path,
                           event_type |-> event_type, timestamp |-> now,
                           category |-> handler_category[h]])]
         /\ tasks' = [tasks EXCEPT ![nextId] =
                [pc |-> "sleeping", handler |-> h,
                 wake |-> now + SleepSeconds, items |-> <<>>]]
         /\ nextId' = nextId + 1
         /\ UNCHANGED coalesced
    ELSE /\ coalesced' = coalesced \cup
                {q[k].id : k \in {i \in DOMAIN q : q[i].path = file_path}}
         /\ UNCHANGED <<processing_queue, tasks, nextId>>

\* _queue_file_for_processing for a path that is not queued, when the log
\* call of line 60 raises: the entry is appended (line 53), the exception
\* leaves the `with` block, which releases the lock, and line 63 is not
\* reached: no thread is started for the entry.
QueueFileLogRaises(h, file_path, event_type) ==
    /\ h \in 1..nhandlers
    /\ ~AlreadyQueued(processing_queue[h], file_path)
    /\ processing_queue' = [processing_queue EXCEPT ![h] =
           Append(@, [id |-> nextId, path |-> file_path,
                      event_type |-> event_type, timestamp |-> now,
                      category |-> handler_category[h]])]
    /\ UNCHANGED <<now, nhandlers, handler_category, nextId, tasks, coalesced, handed,
                   statVars, callVars, mgrVars>>

\* on_created / on_modified: directory events are dropped.
OnCreated(h, src_path, is_directory) ==
    /\ h \in 1..nhandlers
    /\ IF ~is_directory
       THEN QueueFileForProcessing(h, src_path, "created")
       ELSE UNCHANGED <<processing_queue, tasks, nextId, coalesced>>
    /\ UNCHANGED <<now, nhandlers, handler_category, handed, statVars, callVars, mgrVars>>

OnModified(h, src_path, is_directory) ==
    /\ h \in 1..nhandlers
    /\ IF ~is_directory
       THEN QueueFileForProcessing(h, src_path, "modified")
       ELSE UNCHANGED <<processing_queue, tasks, nextId, coalesced>>
    /\ UNCHANGED <<now, nhandlers, handler_category, handed, statVars, callVars, mgrVars>>

\* A faulty drain: the copy is taken and the queue is not cleared.
ClearedQueue_NotCleared(q) == q

\* `self.processing_queue.clear()`: what is left in the queue after the drain.
ClearedQueue(q) == <<>>

\* A faulty drain: only the oldest entry is kept of the copy.
CopiedQueue_FirstOnly(q) == <<Head(q)>>

\* A faulty drain: the copy holds the newest entry first.
CopiedQueue_Reversed(q) == [i \in DOMAIN q |-> q[Len(q) + 1 - i]]

\* `items_to_process = self.processing_queue.copy()`.
CopiedQueue(q) == q

\* _process_queue up to the end of the `with` block: time.sleep(2) has
\* returned; under the lock, return on an empty queue, else take a copy
\* of the queue and clear it.
ProcessQueueDrain(t) ==
    /\ tasks[t].pc = "sleeping"
    /\ now >= tasks[t].wake
    /\ LET h == tasks[t].handler IN
       IF processing_queue[h] = <<>>
       THEN /\ tasks' = [tasks EXCEPT ![t] = DoneTask]
            /\ UNCHANGED processing_queue
       ELSE /\ tasks' = [tasks EXCEPT ![t].pc = "processing",
                                      ![t].items = CopiedQueue(processing_queue[h])]
            /\ processing_queue' = [processing_queue EXCEPT ![h] = ClearedQueue(@)]
    /\ coalesced' = {i \in coalesced : \E h \in HandlerIds :
                        \E k \in DOMAIN processing_queue'[h] : processing_queue'[h][k].id = i}
    /\ UNCHANGED <<now, nhandlers, handler_category, nextId, handed, statVars, callVars, mgrVars>>

\* The clock.
Tick ==
    /\ now < MaxTime
    /\ now' = now + 1
    /\ UNCHANGED <<debVars, statVars, callVars, mgrVars>>

\* --------------------------- process_single_file, statement by statement
\* The calls that run on several threads at once (flush threads of any
\* folder, manual calls).  No lock guards self.statistics: `d[k] += 1` is a
\* load and a later store, and another thread can run between the two.
\* calls[c] is the call in progress on thread c.
SetCall(c, r) == calls' = [calls EXCEPT ![c] = r]

\* The frame of a call at line 312, start_time = time.time().
EnteredCall(category, t) ==
    [IdleCall EXCEPT !.pc = "total_read", !.category = category, !.t0 = t]

\* The call of thread c is over: a manual caller is idle again, a flush
\* thread is back in the loop of _process_queue.
AfterReturn(c) == IF c \in Callers THEN IdleCall ELSE [calls[c] EXCEPT !.pc = "returned"]

\* line 312: start_time = time.time()
PsfEnter(c, category) ==
    /\ calls[c].pc = "idle"
    /\ started < MaxCalls
    /\ started' = started + 1
    /\ SetCall(c, EnteredCall(category, now))
    /\ UNCHANGED <<now, debVars, statVars, completed, mgrVars>>

\* line 316, the load of self.statistics['total_processed']
PsfTotalRead(c) ==
    /\ calls[c].pc = "total_read"
    /\ SetCall(c, [calls[c] EXCEPT !.pc = "total_write",
                                   !.reg = statistics.total_processed,
                                   !.ref = stats_gen])
    /\ UNCHANGED <<now, debVars, statVars, started, completed, mgrVars>>

\* line 316, the store: into the dict the load was made from, which
\* reset_statistics may have replaced since.
PsfTotalWrite(c) ==
    /\ calls[c].pc = "total_write"
    /\ statistics' = IF calls[c].ref = stats_gen
                     THEN [statistics EXCEPT !.total_processed = calls[c].reg + 1]
                     ELSE statistics
    /\ SetCall(c, [calls[c] EXCEPT !.pc = "last_activity"])
    /\ UNCHANGED <<now, debVars, stats_gen, started, completed, mgrVars>>

\* line 317, the right-hand side: datetime.now()
PsfLastActivity(c) ==
    /\ calls[c].pc = "last_activity"
    /\ SetCall(c, [calls[c] EXCEPT !.pc = "last_activity_write", !.reg = now])
    /\ UNCHANGED <<now, debVars, statVars, started, completed, mgrVars>>

\* line 317, the store into self.statistics
PsfLastActivityWrite(c) ==
    /\ calls[c].pc = "last_activity_write"
    /\ statistics' = [statistics EXCEPT !.last_activity = calls[c].reg]
    /\ SetCall(c, [calls[c] EXCEPT !.pc = "category_read"])
    /\ UNCHANGED <<now, debVars, stats_gen, started, completed, mgrVars>>

\* line 318, the right-hand side: files_per_category.get(category, 0) + 1
PsfCategoryRead(c) ==
    /\ calls[c].pc = "category_read"
    /\ SetCall(c, [calls[c] EXCEPT !.pc = "category_write",
                       !.reg = Get(statistics.files_per_category, calls[c].category, 0)])
    /\ UNCHANGED <<now, debVars, statVars, started, completed, mgrVars>>

\* line 318, the store into self.statistics['files_per_category']
PsfCategoryWrite(c) ==
    /\ calls[c].pc = "category_write"
    /\ statistics' = [statistics EXCEPT !.files_per_category =
                          Put(@, calls[c].category, calls[c].reg + 1)]
    /\ SetCall(c, [calls[c] EXCEPT !.pc = "decide"])
    /\ UNCHANGED <<now, debVars, stats_gen, started, completed, mgrVars>>

\* The log call on the way of the call raises: line 323, 328, 338, 352 or
\* 355, or the log call of the check that fails in _perform_quality_checks.
\* Only the call of a flush thread whose logger can fail has the field.
LogRaises(c) == "log_raises" \in DOMAIN calls[c] /\ calls[c].log_raises

\* lines 320-348 and the except clause: the rule lookup, the quality
\* gate, the pattern match and the import, none of which touches
\* self.statistics.  A manual call can meet anything there, the call of a
\* flush thread meets what its file is.  A log call that raises before a
\* counter is touched takes the call to the except clause of line 359.
PsfDecide(c) ==
    /\ calls[c].pc = "decide"
    /\ \E w \in (IF "w" \in DOMAIN calls[c] THEN {calls[c].w} ELSE Worlds) :
         LET branch == ProcessOutcome(calls[c].category, w)
             o == IF LogRaises(c) /\ branch \in {"no_rule", "auto_import_off",
                                                 "quality_failed", "pattern_miss"}
                  THEN "exception" ELSE branch IN
         SetCall(c, [calls[c] EXCEPT !.outcome = o,
                         !.pc = IF CountsAsFailed(o) \/ CountsAsSuccess(o)
                                THEN "result_read" ELSE "finally"])
    /\ UNCHANGED <<now, debVars, statVars, started, completed, mgrVars>>

\* lines 333 / 351 / 354 / 360, the load of the counter to increment
PsfResultRead(c) ==
    /\ calls[c].pc = "result_read"
    /\ SetCall(c, [calls[c] EXCEPT !.pc = "result_write",
                       !.reg = IF CountsAsSuccess(calls[c].outcome)
                               THEN statistics.successful_imports
                               ELSE statistics.failed_imports,
                       !.ref = stats_gen])
    /\ UNCHANGED <<now, debVars, statVars, started, completed, mgrVars>>

\* lines 333 / 351 / 354 / 360, the store.  When the log call after the
\* store of line 351 or 354 raises (line 352, 355), the except clause of
\* line 359 is next, which counts a failure (line 360).
PsfResultWrite(c) ==
    /\ calls[c].pc = "result_write"
    /\ statistics' =
         IF calls[c].ref # stats_gen THEN statistics
         ELSE IF CountsAsSuccess(calls[c].outcome)
         THEN [statistics EXCEPT !.successful_imports = calls[c].reg + 1]
         ELSE [statistics EXCEPT !.failed_imports = calls[c].reg + 1]
    /\ SetCall(c, IF LogRaises(c) /\ calls[c].outcome \in {"success", "import_failed"}
                  THEN [calls[c] EXCEPT !.pc = "result_read", !.outcome = "exception"]
                  ELSE [calls[c] EXCEPT !.pc = "finally"])
    /\ UNCHANGED <<now, debVars, stats_gen, started, completed, mgrVars>>

\* line 366 of the finally block: processing_time = time.time() - start_time
PsfFinally(c) ==
    /\ calls[c].pc = "finally"
    /\ SetCall(c, [calls[c] EXCEPT !.pc = "append", !.reg = now - calls[c].t0])
    /\ UNCHANGED <<now, debVars, statVars, started, completed, mgrVars>>

\* line 367: self.statistics['processing_times'].append(processing_time)
PsfAppend(c) ==
    /\ calls[c].pc = "append"
    /\ statistics' = [statistics EXCEPT !.processing_times = Append(@, calls[c].reg)]
    /\ SetCall(c, [calls[c] EXCEPT !.pc = "length"])
    /\ UNCHANGED <<now, debVars, stats_gen, started, completed, mgrVars>>

\* line 370: `if len(self.statistics['processing_times']) > 100`, and the
\* return when the test fails.
PsfLength(c) ==
    /\ calls[c].pc = "length"
    /\ IF Len(statistics.processing_times) > MaxProcessingTimes
       THEN /\ SetCall(c, [calls[c] EXCEPT !.pc = "slice_read"])
            /\ UNCHANGED completed
       ELSE /\ SetCall(c, AfterReturn(c))
            /\ completed' = IF c \in Callers THEN completed + 1 ELSE completed
    /\ UNCHANGED <<now, debVars, statVars, started, mgrVars>>

\* line 371, the right-hand side: self.statistics['processing_times'][-100:]
PsfSliceRead(c) ==
    /\ calls[c].pc = "slice_read"
    /\ LET times == statistics.processing_times
           last == IF Len(times) > MaxProcessingTimes
                   THEN SubSeq(times, Len(times) - MaxProcessingTimes + 1, Len(times))
                   ELSE times IN
       SetCall(c, [calls[c] EXCEPT !.pc = "slice_store", !.reg = last])
    /\ UNCHANGED <<now, debVars, statVars, started, completed, mgrVars>>

\* line 371, the store of the slice, and the return
PsfSliceStore(c) ==
    /\ calls[c].pc = "slice_store"
    /\ statistics' = [statistics EXCEPT !.processing_times = calls[c].reg]
    /\ SetCall(c, AfterReturn(c))
    /\ completed' = IF c \in Callers THEN completed + 1 ELSE completed
    /\ UNCHANGED <<now, debVars, stats_gen, started, mgrVars>>

\* lines 370-371, one statement at a time: the length test, the slice and
\* its store.
PsfKeepLast(c) ==
    /\ calls[c].pc \in {"length", "slice_read", "slice_store"}
    /\ CASE calls[c].pc = "length" -> PsfLength(c)
         [] calls[c].pc = "slice_read" -> PsfSliceRead(c)
         [] calls[c].pc = "slice_store" -> PsfSliceStore(c)

\* One statement of the call in progress on thread c.
ProcessSingleFileStep(c) ==
    \/ PsfTotalRead(c)
    \/ PsfTotalWrite(c)
    \/ PsfLastActivity(c)
    \/ PsfLastActivityWrite(c)
    \/ PsfCategoryRead(c)
    \/ PsfCategoryWrite(c)
    \/ PsfDecide(c)
    \/ PsfResultRead(c)
    \/ PsfResultWrite(c)
    \/ PsfFinally(c)
    \/ PsfAppend(c)
    \/ PsfKeepLast(c)

\* ------------------------------------ the loop of _process_queue
\* One turn of `for item in items_to_process` (lines 76-84), outside the
\* lock: the flush thread enters process_single_file for the next item of
\* its snapshot.  The call meets w; the log call on its way raises when
\* log_raises, the log call of its except clause (line 361) when
\* error_log_raises.  raised: an exception leaves the call, which is when
\* the except clause is entered and its log call raises.  left: the items
\* of the snapshot after this one.
ProcessQueueEnter(t, w, log_raises, error_log_raises) ==
    /\ tasks[t].pc = "processing"
    /\ LET item == Head(tasks[t].items)
           raised == /\ error_log_raises
                     /\ log_raises \/ ProcessOutcome(item.category, w) = "exception" IN
       /\ handed' = [handed EXCEPT ![t] = Append(@,
                [id |-> item.id, handler |-> tasks[t].handler, path |-> item.path,
                 category |-> item.category, queued_at |-> item.timestamp,
                 at |-> now, raised |-> raised,
                 left |-> Len(tasks[t].items) - 1])]
       /\ tasks' = [tasks EXCEPT ![t].pc = "calling"]
       /\ SetCall(FlushCaller(t),
                  EnteredCall(item.category, now)
                  @@ [w |-> w, log_raises |-> log_raises, raised |-> raised])
    /\ UNCHANGED <<now, nhandlers, handler_category, processing_queue, nextId, coalesced,
                   statVars, started, completed, mgrVars>>

\* The turn for a file in whose call nothing raises.
ProcessQueueCallBegin(t) ==
    /\ tasks[t].pc = "processing"
    /\ ProcessQueueEnter(t, FileWorld(Head(tasks[t].items).path), FALSE, FALSE)

\* The turn for a file in whose call something raises: os.path.getsize in
\* the quality gate, or the log call on the way of the call.  The except
\* clause of process_single_file counts a failure; when its log call
\* (line 361) returns, the call returns False, when it raises, the finally
\* block runs and the exception leaves the call.
ProcessQueueCallBeginRaises(t, cause, error_log_raises) ==
    /\ tasks[t].pc = "processing"
    /\ LET w == FileWorld(Head(tasks[t].items).path) IN
       IF cause = "getsize"
       THEN ProcessQueueEnter(t, [w EXCEPT !.quality = "raise"], FALSE, error_log_raises)
       ELSE ProcessQueueEnter(t, w, TRUE, error_log_raises)

\* The loop after a turn: it goes on with the items left, and the thread
\* returns after the last of them.
NextTurn(task) ==
    IF Tail(task.items) = <<>> THEN DoneTask
    ELSE [task EXCEPT !.pc = "processing", !.items = Tail(task.items)]

\* The call has returned (line 81): the next turn of the loop.
ProcessQueueCallEnd(t) ==
    /\ tasks[t].pc = "calling"
    /\ calls[FlushCaller(t)].pc = "returned"
    /\ ~calls[FlushCaller(t)].raised
    /\ tasks' = [tasks EXCEPT ![t] = NextTurn(@)]
    /\ SetCall(FlushCaller(t), IdleCall)
    /\ UNCHANGED <<now, nhandlers, handler_category, processing_queue, nextId, coalesced,
                   handed, statVars, started, completed, mgrVars>>

\* The call has raised (lines 83-84): the except clause catches the
\* exception and calls self.logger.error.  When that call returns the loop
\* takes its next turn; when it raises (log_raises), nothing catches the
\* new exception: it leaves _process_queue and ends the thread, with the
\* items of the snapshot that are left.
ProcessQueueExcept(t, log_raises) ==
    /\ tasks[t].pc = "calling"
    /\ calls[FlushCaller(t)].pc = "returned"
    /\ calls[FlushCaller(t)].raised
    /\ tasks' = [tasks EXCEPT ![t] =
                    IF log_raises
                    THEN [@ EXCEPT !.pc = "raised", !.items = Tail(@)]
                    ELSE NextTurn(@)]
    /\ SetCall(FlushCaller(t), IdleCall)
    /\ UNCHANGED <<now, nhandlers, handler_category, processing_queue, nextId, coalesced,
                   handed, statVars, started, completed, mgrVars>>

\* ------------------------------------------- one FileEventHandler alone
\* FileEventHandler.__init__ for one folder of category "characters",
\* whose observer delivers events at any time.
InitDebounce ==
    /\ now = 0
    /\ nhandlers = 1
    /\ handler_category = [h \in HandlerIds |-> "characters"]
    /\ processing_queue = [h \in HandlerIds |-> <<>>]
    /\ nextId = 1
    /\ tasks = [t \in TaskIds |-> NoTask]
    /\ coalesced = {}
    /\ handed = [t \in TaskIds |-> <<>>]
    /\ InitStatistics
    /\ InitManager

\* The event can be followed: it appends one of the first MaxLifeEvents
\* entries, or it is for a path that is queued.
MayQueue(h, p) == nextId <= MaxLifeEvents \/ p \in QueuedPaths(processing_queue[h])

NextDebounce ==
    \/ \E p \in EventPaths, d \in BOOLEAN : MayQueue(1, p) /\ OnCreated(1, p, d)
    \/ \E p \in EventPaths, d \in BOOLEAN : MayQueue(1, p) /\ OnModified(1, p, d)
    \/ \E t \in TaskIds : ProcessQueueDrain(t)
    \/ \E t \in TaskIds : ProcessQueueCallBegin(t)
    \/ \E t \in TaskIds : ProcessSingleFileStep(FlushCaller(t))
    \/ \E t \in TaskIds : ProcessQueueCallEnd(t)
    \/ Tick

SpecDebounce == InitDebounce /\ [][NextDebounce]_vars

\* The same handler with MaxEvents entries, followed for MaxBurstTime
\* seconds.
NextBurst ==
    \/ \E p \in EventPaths : OnCreated(1, p, FALSE)
    \/ \E p \in EventPaths : OnModified(1, p, FALSE)
    \/ \E t \in TaskIds : ProcessQueueDrain(t)
    \/ \E t \in TaskIds : ProcessQueueCallBegin(t)
    \/ \E t \in TaskIds : ProcessSingleFileStep(FlushCaller(t))
    \/ \E t \in TaskIds : ProcessQueueCallEnd(t)
    \/ now < MaxBurstTime /\ Tick

SpecBurst == InitDebounce /\ [][NextBurst]_vars

\* The same handler when every flush thread started can see its sleep end
\* within the modelled time, and the scheduler is weakly fair to the clock
\* and to every flush thread.
NextDebounceFair ==
    \/ /\ now + SleepSeconds <= MaxTime
       /\ \E p \in EventPaths, d \in BOOLEAN : MayQueue(1, p) /\ OnCreated(1, p, d)
    \/ /\ now + SleepSeconds <= MaxTime
       /\ \E p \in EventPaths, d \in BOOLEAN : MayQueue(1, p) /\ OnModified(1, p, d)
    \/ \E t \in TaskIds : ProcessQueueDrain(t)
    \/ \E t \in TaskIds : ProcessQueueCallBegin(t)
    \/ \E t \in TaskIds : ProcessSingleFileStep(FlushCaller(t))
    \/ \E t \in TaskIds : ProcessQueueCallEnd(t)
    \/ Tick

SpecDebounceFair ==
    /\ InitDebounce
    /\ [][NextDebounceFair]_vars
    /\ WF_vars(Tick)
    /\ \A t \in TaskIds :
         /\ WF_vars(ProcessQueueDrain(t))
         /\ WF_vars(ProcessQueueCallBegin(t))
         /\ WF_vars(ProcessSingleFileStep(FlushCaller(t)))
         /\ WF_vars(ProcessQueueCallEnd(t))

\* The handler whose log calls can raise, and so a call of the flush loop
\* too, followed for the first MaxLifeEvents threads and MaxLifeTime
\* seconds.
NextFlushErrors ==
    \/ /\ nextId <= MaxLifeEvents
       /\ \E p \in EventPaths : OnCreated(1, p, FALSE)
    \/ /\ nextId <= MaxLifeEvents
       /\ \E p \in EventPaths : OnModified(1, p, FALSE)
    \/ /\ nextId <= MaxLifeEvents
       /\ \E p \in EventPaths, e \in {"created", "modified"} : QueueFileLogRaises(1, p, e)
    \/ \E t \in TaskIds : ProcessQueueDrain(t)
    \/ \E t \in TaskIds : ProcessQueueCallBegin(t)
    \/ \E t \in TaskIds : ProcessSingleFileStep(FlushCaller(t))
    \/ \E t \in TaskIds : ProcessQueueCallEnd(t)
    \/ \E t \in TaskIds, cause \in {"getsize", "log"}, error_log_raises \in BOOLEAN :
          ProcessQueueCallBeginRaises(t, cause, error_log_raises)
    \/ \E t \in TaskIds, log_raises \in BOOLEAN : ProcessQueueExcept(t, log_raises)
    \/ now < MaxLifeTime /\ Tick

SpecFlushErrors == InitDebounce /\ [][NextFlushErrors]_vars

\* reset_statistics, from the control thread.  monitoring: self.is_monitoring.
ResetStatistics(monitoring) ==
    /\ stats_gen < MaxResets
    /\ statistics' = NewStatistics(IF monitoring THEN now ELSE NoTime)
    /\ stats_gen' = stats_gen + 1
    /\ UNCHANGED <<now, debVars, callVars, mgrVars>>

\* ------------------------------------ concurrent process_single_file calls
\* A manager that is not monitoring, whose process_single_file is called
\* from two threads, and whose statistics the control thread may reset.
\* The calls are followed within one second of the clock.
InitStats ==
    /\ now = 0
    /\ nhandlers = 0
    /\ handler_category = [h \in HandlerIds |-> "default"]
    /\ processing_queue = [h \in HandlerIds |-> <<>>]
    /\ nextId = 1
    /\ tasks = [t \in TaskIds |-> NoTask]
    /\ coalesced = {}
    /\ handed = [t \in TaskIds |-> <<>>]
    /\ InitStatistics
    /\ InitManager

NextStats ==
    \/ \E c \in Callers, category \in {"default", "characters"} : PsfEnter(c, category)
    \/ \E c \in Callers : ProcessSingleFileStep(c)
    \/ ResetStatistics(FALSE)

SpecStats == InitStats /\ [][NextStats]_vars

\* ------------------------------- concurrent calls on a full history
\* The statistics of a manager after MaxProcessingTimes calls for files of
\* a category without a rule, each of which took no time.
FullHistory ==
    [NewStatistics(NoTime) EXCEPT
        !.total_processed = MaxProcessingTimes,
        !.last_activity = 0,
        !.files_per_category = Put(EmptyDict, "default", MaxProcessingTimes),
        !.processing_times = [i \in 1..MaxProcessingTimes |-> 0]]

InitHistory ==
    /\ now = 0
    /\ nhandlers = 0
    /\ handler_category = [h \in HandlerIds |-> "default"]
    /\ processing_queue = [h \in HandlerIds |-> <<>>]
    /\ nextId = 1
    /\ tasks = [t \in TaskIds |-> NoTask]
    /\ coalesced = {}
    /\ handed = [t \in TaskIds |-> <<>>]
    /\ statistics = FullHistory
    /\ stats_gen = 0
    /\ calls = [c \in Threads |-> IdleCall]
    /\ started = 0
    /\ completed = 0
    /\ InitManager

\* Two threads make MaxProcessCalls calls of process_single_file between
\* them while the clock runs; every call takes the history over its
\* limit, so the slice of line 371 is taken.
NextHistory ==
    \/ /\ started < MaxProcessCalls
       /\ \E c \in Callers, category \in {"default", "characters"} : PsfEnter(c, category)
    \/ \E c \in Callers : ProcessSingleFileStep(c)
    \/ now < MaxLifeTime /\ Tick

SpecHistory == InitHistory /\ [][NextHistory]_vars

\* ------------------------------------------ AutomationManager: watcher set
\* add_watch_folder, remove_watch_folder, start_monitoring and
\* stop_monitoring, statement by statement.  A call runs on a caller
\* thread c and keeps its position and its locals in calls[c]; between two
\* of its statements the other threads take their steps.  add_watch_folder
\* and remove_watch_folder take no lock; start_monitoring and
\* stop_monitoring hold monitoring_lock from their first statement to their
\* return.  self.observers maps a path to its observer (id) and keeps its
\* keys in the order of their insertion: a new key takes the next place
\* (slot) of the dict, a deleted key leaves its place empty, clear() gives
\* all places back.  Within MaxHandlers stores the dict is never resized.
WatchedPaths(folders) == {folders[i].path : i \in DOMAIN folders}

\* The call a thread is in.
OpOf(c) == IF "op" \in DOMAIN calls[c] THEN calls[c].op ELSE ""

\* `with self.monitoring_lock:` of start_monitoring and stop_monitoring.
HoldsMonitoringLock(c) ==
    /\ OpOf(c) \in {"start_monitoring", "stop_monitoring"}
    /\ calls[c].pc # "idle"

MonitoringLockFree == \A c \in Callers : ~HoldsMonitoringLock(c)

\* save_configuration: the watch folders of the document on disk after it;
\* an exception of the store is logged and the document stays as it was.
SavedFolders(config, store) ==
    IF store.save_raises THEN saved_folders ELSE config.watch_folders

\* save_configuration called by a caller thread between its other calls
\* (lines 132-138): the document is written from self.config as it is, or
\* the exception of the store is logged; the call returns None.
SaveConfiguration(c, save_raises) ==
    /\ calls[c].pc = "idle"
    /\ saved_folders' = SavedFolders([watch_folders |-> watch_folders],
                                     [save_raises |-> save_raises])
    /\ last_call' = [op |-> "save_configuration", ret |-> "None",
                     msg |-> IF save_raises THEN "Error saving configuration"
                             ELSE "Automation configuration saved"]
    /\ UNCHANGED <<now, debVars, statVars, callVars, existing, watch_folders, observers,
                   nentries, running, is_monitoring>>

\* A faulty guard: a disabled entry does not count as present.
IsWatched_EnabledOnly(folders, path) ==
    \E i \in DOMAIN folders : folders[i].path = path /\ folders[i].enabled

\* `watch_entry['path'] not in existing_folders`, negated.
IsWatched(folders, path) == path \in WatchedPaths(folders)

\* lines 196-209: the existence test, the watch entry, and the test of its
\* path against the paths of config['watch_folders']; start_fails holds the
\* folders for which building or starting an observer raises in this call.
AwfEnter(c, folder_path, category, enabled, start_fails) ==
    /\ calls[c].pc = "idle"
    /\ LET watch_entry == [path |-> AbsPath(folder_path), category |-> category,
                           enabled |-> enabled, added_time |-> now] IN
       IF ~PathExists(folder_path)
       THEN /\ last_call' = [op |-> "add_watch_folder", ret |-> "False",
                             msg |-> "Watch folder does not exist"]
            /\ SetCall(c, IdleCall)
       ELSE IF IsWatched(watch_folders, watch_entry.path)
       THEN /\ last_call' = [op |-> "add_watch_folder", ret |-> "False",
                             msg |-> "Folder already being monitored"]
            /\ SetCall(c, IdleCall)
       ELSE /\ SetCall(c, [pc |-> "add_append", op |-> "add_watch_folder",
                           entry |-> watch_entry, fails |-> start_fails, ref |-> 0])
            /\ UNCHANGED last_call
    /\ UNCHANGED <<now, debVars, statVars, started, completed, existing, watch_folders,
                   saved_folders, observers, nentries, running, is_monitoring>>

\* line 210: the append to the list config['watch_folders'] holds now.
AwfAppend(c) ==
    /\ calls[c].pc = "add_append"
    /\ watch_folders' = Append(watch_folders, calls[c].entry)
    /\ SetCall(c, [calls[c] EXCEPT !.pc = "add_save"])
    /\ UNCHANGED <<now, debVars, statVars, started, completed, existing, saved_folders,
                   observers, nentries, running, is_monitoring, last_call>>

\* line 211: save_configuration.
AwfSave(c, save_raises) ==
    /\ calls[c].pc = "add_save"
    /\ saved_folders' = SavedFolders([watch_folders |-> watch_folders],
                                     [save_raises |-> save_raises])
    /\ SetCall(c, [calls[c] EXCEPT !.pc = "add_monitoring"])
    /\ UNCHANGED <<now, debVars, statVars, started, completed, existing, watch_folders,
                   observers, nentries, running, is_monitoring, last_call>>

\* line 215: `if self.is_monitoring:`, and the return when it is false.
AwfMonitoringTest(c) ==
    /\ calls[c].pc = "add_monitoring"
    /\ IF is_monitoring
       THEN /\ SetCall(c, [calls[c] EXCEPT !.pc = "sfm_start"])
            /\ UNCHANGED last_call
       ELSE /\ SetCall(c, IdleCall)
            /\ last_call' = [op |-> "add_watch_folder", ret |-> "True",
                             msg |-> "Added watch folder"]
    /\ UNCHANGED <<now, debVars, statVars, started, completed, existing, watch_folders,
                   saved_folders, observers, nentries, running, is_monitoring>>

\* The return of _start_folder_monitoring: add_watch_folder returns True
\* (line 218), start_monitoring goes on with its loop.
SfmReturn(c) ==
    IF calls[c].op = "add_watch_folder"
    THEN /\ SetCall(c, IdleCall)
         /\ last_call' = [op |-> "add_watch_folder", ret |-> "True",
                          msg |-> "Added watch folder"]
    ELSE /\ SetCall(c, [calls[c] EXCEPT !.pc = "start_next", !.ref = 0])
         /\ UNCHANGED last_call

\* A faulty test: an observer is started for a folder that is gone.
ObserverStarts_IgnoreDisk(watch_entry, start_fails) ==
    watch_entry.path \notin start_fails

\* _start_folder_monitoring gets as far as line 297: the folder exists
\* (287) and the try block (292-295) does not raise.
ObserverStarts(watch_entry, start_fails) ==
    /\ watch_entry.path \in existing
    /\ watch_entry.path \notin start_fails

\* _start_folder_monitoring, lines 287-295: a folder that is gone is
\* skipped; else a handler and an observer are built and the observer is
\* started, unless that raises, which is logged.  A handler built for an
\* observer that failed to start is garbage and gets no identity here.
\* A run is followed no further than its MaxHandlers-th observer.
SfmStart(c) ==
    /\ calls[c].pc = "sfm_start"
    /\ IF ObserverStarts(calls[c].entry, calls[c].fails)
       THEN /\ nhandlers < MaxHandlers
            /\ nhandlers' = nhandlers + 1
            /\ handler_category' =
                  [handler_category EXCEPT ![nhandlers + 1] = calls[c].entry.category]
            /\ running' = running \cup {nhandlers + 1}
            /\ SetCall(c, [calls[c] EXCEPT !.pc = "sfm_store", !.ref = nhandlers + 1])
            /\ UNCHANGED last_call
       ELSE /\ SfmReturn(c)
            /\ UNCHANGED <<nhandlers, handler_category, running>>
    /\ UNCHANGED <<now, processing_queue, nextId, tasks, coalesced, handed, statVars,
                   started, completed, existing, watch_folders, saved_folders,
                   observers, nentries, is_monitoring>>

\* `d[k] = v` of the observers dict, of which `used` places are taken: a
\* key it holds keeps its place, a new key takes the next place.
Store(d, used, k, v) ==
    Put(d, k, [id |-> v, slot |-> IF k \in DOMAIN d THEN d[k].slot ELSE used + 1])

\* _start_folder_monitoring, line 297: `self.observers[folder_path] = observer`.
SfmStore(c) ==
    /\ calls[c].pc = "sfm_store"
    /\ observers' = Store(observers, nentries, calls[c].entry.path, calls[c].ref)
    /\ nentries' = IF calls[c].entry.path \in DOMAIN observers THEN nentries
                    ELSE nentries + 1
    /\ SfmReturn(c)
    /\ UNCHANGED <<now, debVars, statVars, started, completed, existing, watch_folders,
                   saved_folders, running, is_monitoring>>

\* `[w for w in watch_folders if w['path'] != abs_path]`
RECURSIVE WithoutPath(_, _)
WithoutPath(folders, abs_path) ==
    IF folders = <<>> THEN <<>>
    ELSE IF Head(folders).path # abs_path
         THEN <<Head(folders)>> \o WithoutPath(Tail(folders), abs_path)
         ELSE WithoutPath(Tail(folders), abs_path)

\* lines 230-234, up to the store: the absolute path and the list without
\* its entries.
RwfEnter(c, folder_path) ==
    /\ calls[c].pc = "idle"
    /\ SetCall(c, [pc |-> "remove_store", op |-> "remove_watch_folder",
                   path |-> AbsPath(folder_path),
                   list |-> WithoutPath(watch_folders, AbsPath(folder_path)),
                   ref |-> 0])
    /\ UNCHANGED <<now, debVars, statVars, started, completed, mgrVars>>

\* The loop of a start_monitoring call whose list config['watch_folders']
\* holds no more: it goes on over the list as it was left.
Detached(r) ==
    IF "live" \in DOMAIN r /\ r.live
    THEN [r EXCEPT !.live = FALSE, !.snap = watch_folders]
    ELSE r

\* line 234, the store: config['watch_folders'] is the new list.
RwfStore(c) ==
    /\ calls[c].pc = "remove_store"
    /\ watch_folders' = calls[c].list
    /\ calls' = [d \in Threads |->
                    IF d = c
                    THEN [calls[c] EXCEPT !.pc = "remove_save", !.list = <<>>]
                    ELSE Detached(calls[d])]
    /\ UNCHANGED <<now, debVars, statVars, started, completed, existing, saved_folders,
                   observers, nentries, running, is_monitoring, last_call>>

\* line 235: save_configuration.
RwfSave(c, save_raises) ==
    /\ calls[c].pc = "remove_save"
    /\ saved_folders' = SavedFolders([watch_folders |-> watch_folders],
                                     [save_raises |-> save_raises])
    /\ SetCall(c, [calls[c] EXCEPT !.pc = "remove_test"])
    /\ UNCHANGED <<now, debVars, statVars, started, completed, existing, watch_folders,
                   observers, nentries, running, is_monitoring, last_call>>

\* remove_watch_folder raises the KeyError of a lookup in self.observers.
RwfRaises(c) ==
    /\ SetCall(c, IdleCall)
    /\ last_call' = [op |-> "remove_watch_folder", ret |-> "raises",
                     msg |-> "KeyError"]

\* line 238: `if abs_path in self.observers:`, and the return when not.
RwfTest(c) ==
    /\ calls[c].pc = "remove_test"
    /\ IF calls[c].path \in DOMAIN observers
       THEN /\ SetCall(c, [calls[c] EXCEPT !.pc = "remove_stop"])
            /\ UNCHANGED last_call
       ELSE /\ SetCall(c, IdleCall)
            /\ last_call' = [op |-> "remove_watch_folder", ret |-> "None", msg |-> ""]
    /\ UNCHANGED <<now, debVars, statVars, started, completed, existing, watch_folders,
                   saved_folders, observers, nentries, running, is_monitoring>>

\* line 239: `self.observers[abs_path].stop()`.
RwfStop(c) ==
    /\ calls[c].pc = "remove_stop"
    /\ IF calls[c].path \in DOMAIN observers
       THEN /\ running' = running \ {observers[calls[c].path].id}
            /\ SetCall(c, [calls[c] EXCEPT !.pc = "remove_join"])
            /\ UNCHANGED last_call
       ELSE /\ RwfRaises(c)
            /\ UNCHANGED running
    /\ UNCHANGED <<now, debVars, statVars, started, completed, existing, watch_folders,
                   saved_folders, observers, nentries, is_monitoring>>

\* line 240: `self.observers[abs_path].join()`, up to the wait for the
\* thread of the observer the dict holds now.
RwfJoin(c) ==
    /\ calls[c].pc = "remove_join"
    /\ IF calls[c].path \in DOMAIN observers
       THEN /\ SetCall(c, [calls[c] EXCEPT !.pc = "remove_del",
                                           !.ref = observers[calls[c].path].id])
            /\ UNCHANGED last_call
       ELSE RwfRaises(c)
    /\ UNCHANGED <<now, debVars, statVars, started, completed, existing, watch_folders,
                   saved_folders, observers, nentries, running, is_monitoring>>

\* A faulty removal: every observer of the dict is dropped.
Del_All(d, k) == [x \in {} |-> 0]

\* d without the key k: `del d[k]`.
Del(d, k) == [x \in DOMAIN d \ {k} |-> d[x]]

\* lines 240-242: join() returns when the observer's thread has ended;
\* then `del self.observers[abs_path]`.
RwfDel(c) ==
    /\ calls[c].pc = "remove_del"
    /\ calls[c].ref \notin running
    /\ IF calls[c].path \in DOMAIN observers
       THEN /\ observers' = Del(observers, calls[c].path)
            /\ SetCall(c, IdleCall)
            /\ last_call' = [op |-> "remove_watch_folder", ret |-> "None",
                             msg |-> "Removed watch folder"]
       ELSE /\ RwfRaises(c)
            /\ UNCHANGED observers
    /\ UNCHANGED <<now, debVars, statVars, started, completed, existing, watch_folders,
                   saved_folders, nentries, running, is_monitoring>>

\* A faulty start: the is_monitoring test is missing.
AlreadyMonitoring_Never == FALSE

\* `if self.is_monitoring:` in start_monitoring
AlreadyMonitoring == is_monitoring

\* The watch entry of a loop that has not taken one yet.
NoEntry == [path |-> <<>>, category |-> "", enabled |-> FALSE, added_time |-> 0]

\* lines 246-258: the lock, the is_monitoring test, start_time, and the
\* iterator over the list config['watch_folders'] holds.
SmEnter(c, start_fails) ==
    /\ calls[c].pc = "idle"
    /\ IF ~WATCHDOG_AVAILABLE
       THEN /\ last_call' = [op |-> "start_monitoring", ret |-> "False",
                             msg |-> "File monitoring not available"]
            /\ SetCall(c, IdleCall)
            /\ UNCHANGED statistics
       ELSE /\ MonitoringLockFree
            /\ IF AlreadyMonitoring
               THEN /\ last_call' = [op |-> "start_monitoring", ret |-> "True",
                                     msg |-> "Monitoring is already running"]
                    /\ SetCall(c, IdleCall)
                    /\ UNCHANGED statistics
               ELSE /\ nhandlers + Len(watch_folders) <= MaxHandlers
                    /\ statistics' = [statistics EXCEPT !.start_time = now]
                    /\ SetCall(c, [pc |-> "start_next", op |-> "start_monitoring",
                                   fails |-> start_fails, live |-> TRUE, snap |-> <<>>,
                                   i |-> 0, entry |-> NoEntry, ref |-> 0])
                    /\ UNCHANGED last_call
    /\ UNCHANGED <<now, debVars, stats_gen, started, completed, existing, watch_folders,
                   saved_folders, observers, nentries, running, is_monitoring>>

\* The list the loop of start_monitoring runs over.
LoopFolders(r) == IF r.live THEN watch_folders ELSE r.snap

\* lines 258-259: the next entry of the list, if there is one, and its
\* enabled test.
SmNext(c) ==
    /\ calls[c].pc = "start_next"
    /\ LET folders == LoopFolders(calls[c])
           i == calls[c].i IN
       IF i < Len(folders)
       THEN SetCall(c, [calls[c] EXCEPT
                           !.i = i + 1, !.entry = folders[i + 1],
                           !.pc = IF folders[i + 1].enabled THEN "sfm_start"
                                  ELSE "start_next"])
       ELSE SetCall(c, [calls[c] EXCEPT !.pc = "start_finish"])
    /\ UNCHANGED <<now, debVars, statVars, started, completed, mgrVars>>

\* lines 262-264: is_monitoring, the release of the lock and the return.
SmFinish(c) ==
    /\ calls[c].pc = "start_finish"
    /\ is_monitoring' = TRUE
    /\ SetCall(c, IdleCall)
    /\ last_call' = [op |-> "start_monitoring", ret |-> "True",
                     msg |-> "Started monitoring"]
    /\ UNCHANGED <<now, debVars, statVars, started, completed, existing, watch_folders,
                   saved_folders, observers, nentries, running>>

\* lines 268-274: the lock, the is_monitoring test, and the iterator over
\* self.observers.values(), which keeps the size of the dict.
StopEnter(c) ==
    /\ calls[c].pc = "idle"
    /\ MonitoringLockFree
    /\ IF ~is_monitoring
       THEN /\ last_call' = [op |-> "stop_monitoring", ret |-> "None",
                             msg |-> "Monitoring is not running"]
            /\ SetCall(c, IdleCall)
       ELSE /\ SetCall(c, [pc |-> "stop_next", op |-> "stop_monitoring", pos |-> 0,
                           size |-> Cardinality(DOMAIN observers),
                           len |-> Cardinality(DOMAIN observers), ref |-> 0])
            /\ UNCHANGED last_call
    /\ UNCHANGED <<now, debVars, statVars, started, completed, existing, watch_folders,
                   saved_folders, observers, nentries, running, is_monitoring>>

\* stop_monitoring raises the RuntimeError of its iterator ('dictionary
\* changed size during iteration', 'dictionary keys changed during
\* iteration'); the lock is released.
StopRaises(c) ==
    /\ SetCall(c, IdleCall)
    /\ last_call' = [op |-> "stop_monitoring", ret |-> "raises",
                     msg |-> "RuntimeError"]

\* line 274: the next value of the iterator.  It raises when the dict has
\* another size than at its start, or holds one more key than it had left;
\* else it gives the observer of the next key after its position.
StopNext(c) ==
    /\ calls[c].pc = "stop_next"
    /\ LET later == {p \in DOMAIN observers : observers[p].slot > calls[c].pos} IN
       IF Cardinality(DOMAIN observers) # calls[c].size THEN StopRaises(c)
       ELSE IF later = {}
       THEN /\ SetCall(c, [calls[c] EXCEPT !.pc = "stop_clear"])
            /\ UNCHANGED last_call
       ELSE IF calls[c].len = 0 THEN StopRaises(c)
       ELSE LET p == CHOOSE p \in later :
                        \A q \in later : observers[p].slot <= observers[q].slot IN
            /\ SetCall(c, [calls[c] EXCEPT !.pc = "stop_stop",
                                           !.pos = observers[p].slot,
                                           !.len = calls[c].len - 1,
                                           !.ref = observers[p].id])
            /\ UNCHANGED last_call
    /\ UNCHANGED <<now, debVars, statVars, started, completed, existing, watch_folders,
                   saved_folders, observers, nentries, running, is_monitoring>>

\* lines 275-276: observer.stop() and observer.join(), which returns when
\* the observer's thread has ended.  The flush threads the handlers started
\* are not touched.
StopObserver(c) ==
    /\ calls[c].pc = "stop_stop"
    /\ running' = running \ {calls[c].ref}
    /\ SetCall(c, [calls[c] EXCEPT !.pc = "stop_next", !.ref = 0])
    /\ UNCHANGED <<now, debVars, statVars, started, completed, existing, watch_folders,
                   saved_folders, observers, nentries, is_monitoring, last_call>>

\* A faulty stop: the observers are stopped and the dict is not cleared.
StoppedObservers_NotCleared(obs) == obs

\* `self.observers.clear()`
StoppedObservers(obs) == EmptyDict

\* line 278
StopClear(c) ==
    /\ calls[c].pc = "stop_clear"
    /\ observers' = StoppedObservers(observers)
    /\ nentries' = 0
    /\ SetCall(c, [calls[c] EXCEPT !.pc = "stop_finish"])
    /\ UNCHANGED <<now, debVars, statVars, started, completed, existing, watch_folders,
                   saved_folders, running, is_monitoring, last_call>>

\* lines 279-280: is_monitoring, the release of the lock and the return.
StopFinish(c) ==
    /\ calls[c].pc = "stop_finish"
    /\ is_monitoring' = FALSE
    /\ SetCall(c, IdleCall)
    /\ last_call' = [op |-> "stop_monitoring", ret |-> "None",
                     msg |-> "Stopped all monitoring"]
    /\ UNCHANGED <<now, debVars, statVars, started, completed, existing, watch_folders,
                   saved_folders, observers, nentries, running>>

\* A step of thread c inside a call of the watcher set; save_outcomes holds
\* whether save_config of the store can raise.
AddWatchFolderStep(c, save_outcomes) ==
    \/ AwfAppend(c)
    \/ \E r \in save_outcomes : AwfSave(c, r)
    \/ AwfMonitoringTest(c)

StartFolderMonitoringStep(c) ==
    \/ SfmStart(c)
    \/ SfmStore(c)

RemoveWatchFolderStep(c, save_outcomes) ==
    \/ RwfStore(c)
    \/ \E r \in save_outcomes : RwfSave(c, r)
    \/ RwfTest(c)
    \/ RwfStop(c)
    \/ RwfJoin(c)
    \/ RwfDel(c)

StartMonitoringStep(c) ==
    \/ SmNext(c)
    \/ SmFinish(c)

StopMonitoringStep(c) ==
    \/ StopNext(c)
    \/ StopObserver(c)
    \/ StopClear(c)
    \/ StopFinish(c)

WatchCallStep(c, save_outcomes) ==
    \/ AddWatchFolderStep(c, save_outcomes)
    \/ StartFolderMonitoringStep(c)
    \/ RemoveWatchFolderStep(c, save_outcomes)
    \/ StartMonitoringStep(c)
    \/ StopMonitoringStep(c)

\* --------------------------------------------------- the whole manager
\* AutomationManager.__init__ with no watch folder configured, then the
\* callers' calls, the events of the running observers, the flush threads
\* and the clock.
Init ==
    /\ now = 0
    /\ nhandlers = 0
    /\ handler_category = [h \in HandlerIds |-> "default"]
    /\ processing_queue = [h \in HandlerIds |-> <<>>]
    /\ nextId = 1
    /\ tasks = [t \in TaskIds |-> NoTask]
    /\ coalesced = {}
    /\ handed = [t \in TaskIds |-> <<>>]
    /\ InitStatistics
    /\ InitManager

\* One control thread that makes the calls of the watcher set one after
\* the other, with every spelling of the folders, on a store whose save
\* can fail.
NextControl ==
    \/ \E f \in FolderInputs, e \in BOOLEAN, fail \in BOOLEAN :
          AwfEnter(1, f, "default", e, IF fail THEN {AbsPath(f)} ELSE {})
    \/ \E f \in FolderInputs : RwfEnter(1, f)
    \/ \E fails \in SUBSET InitialFolders : SmEnter(1, fails)
    \/ StopEnter(1)
    \/ \E r \in BOOLEAN : SaveConfiguration(1, r)
    \/ WatchCallStep(1, BOOLEAN)

SpecControl == Init /\ [][NextControl]_vars

\* Two threads that make the calls of the watcher set and save the
\* configuration at the same time, for two folders whose observers start,
\* on a store that saves.
NextWatch ==
    \/ \E c \in Callers, f \in {<<"a">>, <<".", "b">>} :
          AwfEnter(c, f, "default", TRUE, {})
    \/ \E c \in Callers : RwfEnter(c, <<"a">>)
    \/ \E c \in Callers : SmEnter(c, {})
    \/ \E c \in Callers : StopEnter(c)
    \/ \E c \in Callers : SaveConfiguration(c, FALSE)
    \/ \E c \in Callers : WatchCallStep(c, {FALSE})

SpecWatch == Init /\ [][NextWatch]_vars

\* Outside the program a watched folder is deleted from the disk
\* (os.path.exists of it is false from then on).
DeleteFolder(p) ==
    /\ p \in existing
    /\ existing' = existing \ {p}
    /\ UNCHANGED <<now, debVars, statVars, callVars, watch_folders, saved_folders,
                   observers, nentries, running, is_monitoring, last_call>>

\* The control thread's calls on a disk whose folders can go away between
\* two calls.
NextWatchDisk ==
    \/ \E f \in {<<"a">>, <<".", "b">>}, e \in BOOLEAN :
          AwfEnter(1, f, "default", e, {})
    \/ AddWatchFolderStep(1, {FALSE})
    \/ \E fails \in SUBSET InitialFolders : SmEnter(1, fails)
    \/ StartMonitoringStep(1)
    \/ StartFolderMonitoringStep(1)
    \/ StopEnter(1)
    \/ StopMonitoringStep(1)
    \/ SaveConfiguration(1, FALSE)
    \/ /\ calls[1].pc = "idle"
       /\ \E p \in InitialFolders : DeleteFolder(p)
    \/ now < MaxWatchTime /\ Tick

SpecWatchDisk == Init /\ [][NextWatchDisk]_vars

\* The calls of the control thread for the one folder a of category
\* "characters", whose observer starts without error and whose store
\* saves.
ControlEnter(c) ==
    \/ AwfEnter(c, <<"a">>, "characters", TRUE, {})
    \/ RwfEnter(c, <<"a">>)
    \/ SmEnter(c, {})
    \/ StopEnter(c)

\* The manager with its handlers and flush threads.
Next ==
    \/ ControlEnter(1)
    \/ SaveConfiguration(1, FALSE)
    \/ WatchCallStep(1, {FALSE})
    \/ /\ nextId <= MaxManagerEvents
       /\ \E h \in running, p \in EventPaths, d \in BOOLEAN : OnCreated(h, p, d)
    \/ /\ nextId <= MaxManagerEvents
       /\ \E h \in running, p \in EventPaths, d \in BOOLEAN : OnModified(h, p, d)
    \/ \E t \in TaskIds : ProcessQueueDrain(t)
    \/ \E t \in TaskIds : ProcessQueueCallBegin(t)
    \/ \E t \in TaskIds : ProcessSingleFileStep(FlushCaller(t))
    \/ \E t \in TaskIds : ProcessQueueCallEnd(t)
    \/ now < MaxLifeTime /\ Tick

Spec == Init /\ [][Next]_vars

\* ------------------------------------------------------------- files
\* A string as the sequence of its characters, for the file names, glob
\* patterns and extensions that occur.
Chars ==
    "Char.foo" :> <<"C", "h", "a", "r", ".", "f", "o", "o">> @@
    "hero.foo" :> <<"h", "e", "r", "o", ".", "f", "o", "o">> @@
    "char.FOO" :> <<"c", "h", "a", "r", ".", "F", "O", "O">> @@
    "char.bar" :> <<"c", "h", "a", "r", ".", "b", "a", "r">> @@
    "char.txt" :> <<"c", "h", "a", "r", ".", "t", "x", "t">> @@
    "char" :> <<"c", "h", "a", "r">> @@
    ".foo" :> <<".", "f", "o", "o">> @@
    ".bar" :> <<".", "b", "a", "r">> @@
    ".FOO" :> <<".", "F", "O", "O">> @@
    "Hero_Character.foo" :> <<"H", "e", "r", "o", "_", "C", "h", "a", "r", "a", "c", "t", "e", "r", ".", "f", "o", "o">> @@
    "Prop_Barrel.foo" :> <<"P", "r", "o", "p", "_", "B", "a", "r", "r", "e", "l", ".", "f", "o", "o">> @@
    "/char/hero.foo" :> <<"/", "c", "h", "a", "r", "/", "h", "e", "r", "o", ".", "f", "o", "o">> @@
    "/w/a/Char.foo" :> <<"/", "w", "/", "a", "/", "C", "h", "a", "r", ".", "f", "o", "o">> @@
    "/w/a/hero.foo" :> <<"/", "w", "/", "a", "/", "h", "e", "r", "o", ".", "f", "o", "o">> @@
    "*CHAR*" :> <<"*", "C", "H", "A", "R", "*">> @@
    "h?ro.*" :> <<"h", "?", "r", "o", ".", "*">> @@
    "*.foo" :> <<"*", ".", "f", "o", "o">> @@
    "hero" :> <<"h", "e", "r", "o">> @@
    "*character*" :> <<"*", "c", "h", "a", "r", "a", "c", "t", "e", "r", "*">> @@
    "*char*" :> <<"*", "c", "h", "a", "r", "*">> @@
    "*env*" :> <<"*", "e", "n", "v", "*">> @@
    "*environment*" :> <<"*", "e", "n", "v", "i", "r", "o", "n", "m", "e", "n", "t", "*">> @@
    "*level*" :> <<"*", "l", "e", "v", "e", "l", "*">> @@
    "*prop*" :> <<"*", "p", "r", "o", "p", "*">> @@
    "*object*" :> <<"*", "o", "b", "j", "e", "c", "t", "*">>

\* str.lower(), character by character.
LowerOf ==
    "A" :> "a" @@ "B" :> "b" @@ "C" :> "c" @@ "D" :> "d" @@ "E" :> "e" @@ "F" :> "f" @@
    "G" :> "g" @@ "H" :> "h" @@ "I" :> "i" @@ "J" :> "j" @@ "K" :> "k" @@ "L" :> "l" @@
    "M" :> "m" @@ "N" :> "n" @@ "O" :> "o" @@ "P" :> "p" @@ "Q" :> "q" @@ "R" :> "r" @@
    "S" :> "s" @@ "T" :> "t" @@ "U" :> "u" @@ "V" :> "v" @@ "W" :> "w" @@ "X" :> "x" @@
    "Y" :> "y" @@ "Z" :> "z"
LowerChar(c) == IF c \in DOMAIN LowerOf THEN LowerOf[c] ELSE c
Lower(s) == [i \in DOMAIN s |-> LowerChar(s[i])]

\* str.endswith
EndsWith(s, suffix) ==
    /\ Len(suffix) <= Len(s)
    /\ SubSeq(s, Len(s) - Len(suffix) + 1, Len(s)) = suffix

\* os.path.splitext(p)[1]: from the last dot on, unless only dots come
\* before it.
SplitExt(s) ==
    LET dots == {i \in DOMAIN s : s[i] = "."} IN
    IF dots = {} THEN <<>>
    ELSE LET last == CHOOSE i \in dots : \A j \in dots : j <= i IN
         IF \A j \in 1..(last - 1) : s[j] = "." THEN <<>>
         ELSE SubSeq(s, last, Len(s))

\* fnmatch.fnmatch for patterns of literal characters, "*" and "?".
RECURSIVE FnMatch(_, _)
FnMatch(name, pat) ==
    IF pat = <<>> THEN name = <<>>
    ELSE IF Head(pat) = "*"
    THEN FnMatch(name, Tail(pat)) \/ (name # <<>> /\ FnMatch(Tail(name), pat))
    ELSE IF Head(pat) = "?"
    THEN name # <<>> /\ FnMatch(Tail(name), Tail(pat))
    ELSE name # <<>> /\ Head(name) = Head(pat) /\ FnMatch(Tail(name), Tail(pat))

\* A faulty base name: the whole path.
Basename_WholePath(s) == s

\* os.path.basename: what follows the last "/".
Basename(s) ==
    LET slashes == {i \in DOMAIN s : s[i] = "/"} IN
    IF slashes = {} THEN s
    ELSE SubSeq(s, (CHOOSE i \in slashes : \A j \in slashes : j <= i) + 1, Len(s))

\* _matches_file_patterns
MatchesFilePatterns(file_path, patterns) ==
    \/ patterns = <<>>
    \/ \E i \in DOMAIN patterns :
          FnMatch(Lower(Basename(Chars[file_path])), Lower(Chars[patterns[i]]))

\* The files a call can be made for: the base name of the path, whether
\* the path exists and the size os.path.getsize reports.
FileNames == {"Char.foo", "hero.foo", "char.FOO", "char.bar", "char.txt", "char"}
FileSizes == {0, 1023, 1024, 2048, 1048576, 1048577, 100000000, 100000001,
              104857600, 104857601, 200000000}
Files == [name : FileNames, exists : {TRUE}, size : FileSizes]
         \cup [name : FileNames, exists : {FALSE}, size : {0}]

\* config['quality_checks'] of _get_default_config, and the documents a
\* configuration file can hold instead.
DefaultQualityChecks ==
    [enabled |-> TRUE, max_file_size_mb |-> 100, min_file_size_bytes |-> 1024,
     allowed_extensions |-> <<".foo", ".bar">>]
QualityConfigs ==
    [enabled : BOOLEAN, max_file_size_mb : {1, 100}, min_file_size_bytes : {0, 1024},
     allowed_extensions : {<<>>, <<".foo", ".bar">>, <<".FOO">>}]

\* What a call meets outside the manager.
\* vanishes: the file is deleted between os.path.exists and
\*   os.path.getsize, which then raises.
\* backend: "mock" is CustomFooTranslator without a translator instance,
\*   "native" with one; valid is what the instance answers to
\*   can_translate_file and validate_file_for_translation, translated what
\*   it answers to translate_file_from_python (an exception it raises is
\*   caught by the wrapper and reads as False).
\* stdout_closed: the print calls of CustomFooTranslator raise.
Envs ==
    [vanishes : BOOLEAN, backend : {"mock"}, valid : {TRUE}, translated : {TRUE},
     stdout_closed : BOOLEAN]
    \cup [vanishes : BOOLEAN, backend : {"native"}, valid : BOOLEAN,
          translated : BOOLEAN, stdout_closed : BOOLEAN]

\* CustomFooTranslator.validate_file: is_valid
ValidateFile(file, env) ==
    IF env.backend = "mock"
    THEN file.exists /\ EndsWith(Lower(Chars[file.name]), Chars[".foo"])
    ELSE env.valid

\* CustomFooTranslator.can_translate_file
CanTranslateFile(file, env) ==
    /\ file.exists
    /\ IF env.backend = "mock"
       THEN EndsWith(Lower(Chars[file.name]), Chars[".foo"])
       ELSE env.valid

\* CustomFooTranslator.import_file as its caller sees it: "True", "False",
\* or "raise" when a print of its except clause raises.  Every path
\* through it prints.
ImportFile(file, env) ==
    IF env.stdout_closed THEN "raise"
    ELSE IF ~file.exists THEN "False"
    ELSE IF ~CanTranslateFile(file, env) THEN "False"
    ELSE IF env.backend = "mock" THEN "True"
    ELSE IF env.translated THEN "True" ELSE "False"

\* CustomFooTranslator.set_options raises: the mock branch prints outside
\* any try.
SetOptionsRaises(env) == env.backend = "mock" /\ env.stdout_closed

\* ------------------------------------------------- the quality gate
\* max_size of line 387, in bytes.
MaxSizeBytes(qc) == qc.max_file_size_mb * 1024 * 1024

\* `file_ext not in allowed_extensions`, file_ext being the lowercased
\* extension of the path.
ExtensionRejected(file, qc) ==
    \A i \in DOMAIN qc.allowed_extensions :
        Chars[qc.allowed_extensions[i]] # Lower(SplitExt(Chars[file.name]))

\* What a _perform_quality_checks call yields: result "pass" for True,
\* "fail" for False, "raise" when os.path.getsize raises; the message it
\* logs on failure; the checks it evaluated, in order.
GateResult(result, reason, evaluated) ==
    [result |-> result, reason |-> reason, evaluated |-> evaluated]

\* A faulty gate: the backend validation is made first.
PerformQualityChecks_ValidateFirst(file, qc, env) ==
    IF ~qc.enabled THEN GateResult("pass", "", <<>>)
    ELSE IF ~ValidateFile(file, env)
    THEN GateResult("fail", "File validation failed", <<"validate">>)
    ELSE IF ~file.exists
    THEN GateResult("fail", "File does not exist", <<"validate", "exists">>)
    ELSE GateResult("pass", "", <<"validate", "exists">>)

\* _perform_quality_checks
PerformQualityChecks(file, qc, env) ==
    IF ~qc.enabled THEN GateResult("pass", "", <<>>)
    ELSE IF ~file.exists
    THEN GateResult("fail", "File does not exist", <<"exists">>)
    ELSE IF env.vanishes
    THEN GateResult("raise", "", <<"exists">>)
    ELSE IF file.size > MaxSizeBytes(qc)
    THEN GateResult("fail", "File too large", <<"exists", "too_large">>)
    ELSE IF file.size < qc.min_file_size_bytes
    THEN GateResult("fail", "File too small", <<"exists", "too_large", "too_small">>)
    ELSE LET sized == <<"exists", "too_large", "too_small">>
             exted == IF qc.allowed_extensions # <<>>
                      THEN Append(sized, "extension") ELSE sized IN
         IF qc.allowed_extensions # <<>> /\ ExtensionRejected(file, qc)
         THEN GateResult("fail", "File extension not in allowed list", exted)
         ELSE IF ~ValidateFile(file, env)
         THEN GateResult("fail", "File validation failed", Append(exted, "validate"))
         ELSE GateResult("pass", "", Append(exted, "validate"))

\* The manager as constructed, but for last_call, which holds the
\* arguments of a call about to be made.
InitWithCall(args) ==
    /\ now = 0
    /\ nhandlers = 0
    /\ handler_category = [h \in HandlerIds |-> "default"]
    /\ processing_queue = [h \in HandlerIds |-> <<>>]
    /\ nextId = 1
    /\ tasks = [t \in TaskIds |-> NoTask]
    /\ coalesced = {}
    /\ handed = [t \in TaskIds |-> <<>>]
    /\ InitStatistics
    /\ existing = InitialFolders
    /\ watch_folders = <<>>
    /\ saved_folders = <<>>
    /\ observers = EmptyDict
    /\ nentries = 0
    /\ running = {}
    /\ is_monitoring = FALSE
    /\ last_call \in args

\* The environments that matter to the gate: it prints nothing and
\* imports nothing.
GateEnvs == {e \in Envs : ~e.stdout_closed /\ e.translated}

\* The calls of _perform_quality_checks to make: a file, a policy and an
\* environment each.
GateCalls ==
    [op : {"call _perform_quality_checks"}, ret : {""}, msg : {""},
     evaluated : {<<>>}, file : Files, qc : QualityConfigs, env : GateEnvs]

\* The call of _perform_quality_checks; last_call keeps the arguments and
\* gets the outcome.
PerformQualityChecksCall ==
    /\ last_call.op = "call _perform_quality_checks"
    /\ LET r == PerformQualityChecks(last_call.file, last_call.qc, last_call.env) IN
       last_call' = [last_call EXCEPT !.op = "_perform_quality_checks",
                                      !.ret = r.result, !.msg = r.reason,
                                      !.evaluated = r.evaluated]
    /\ UNCHANGED <<now, debVars, statVars, callVars, existing, watch_folders,
                   saved_folders, observers, nentries, running, is_monitoring>>

InitGate == InitWithCall(GateCalls)
NextGate == PerformQualityChecksCall
SpecGate == InitGate /\ [][NextGate]_vars

\* ------------------------------------ process_single_file, call by call
\* import_rules[category]['translator_options'] is not empty.
HasTranslatorOptions(category) == category \in {"characters", "environments", "props"}

\* What a process_single_file call for the file meets: the result of the
\* quality gate under the default policy, of the pattern match against
\* the rule of the category, and of lines 342-348 ("raise" when set_options
\* or import_file raises).
WorldOf(file, category, env) ==
    [quality |-> PerformQualityChecks(file, DefaultQualityChecks, env).result,
     matches |-> IF category \in DOMAIN ImportRules
                 THEN MatchesFilePatterns(file.name, ImportRules[category].file_patterns)
                 ELSE TRUE,
     import |-> IF HasTranslatorOptions(category) /\ SetOptionsRaises(env)
                THEN "raise" ELSE ImportFile(file, env)]

\* The calls process_single_file makes to the gate, the matcher and the
\* translator, in order.
ProcessSingleFileInvoked(file, category, env) ==
    LET w == WorldOf(file, category, env)
        o == ProcessOutcome(category, w) IN
    IF o \in {"no_rule", "auto_import_off"} THEN <<>>
    ELSE IF w.quality # "pass" THEN <<"_perform_quality_checks">>
    ELSE IF ~w.matches THEN <<"_perform_quality_checks", "_matches_file_patterns">>
    ELSE IF ~HasTranslatorOptions(category)
    THEN <<"_perform_quality_checks", "_matches_file_patterns", "import_file">>
    ELSE IF SetOptionsRaises(env)
    THEN <<"_perform_quality_checks", "_matches_file_patterns", "set_options">>
    ELSE <<"_perform_quality_checks", "_matches_file_patterns", "set_options",
           "import_file">>

\* One process_single_file call on the control thread; last_call holds
\* the arguments, the counters before the call, the calls made and the
\* value returned.
ProcessSingleFileCall(file, category, env) ==
    /\ statistics.total_processed < MaxProcessCalls
    /\ LET w == WorldOf(file, category, env) IN
       /\ statistics' = ProcessSingleFile(statistics, category, w, now, now, now)
       /\ last_call' = [op |-> "process_single_file",
                        ret |-> ProcessSingleFileReturn(category, w),
                        msg |-> ProcessOutcome(category, w),
                        invoked |-> ProcessSingleFileInvoked(file, category, env),
                        file |-> file, category |-> category, env |-> env,
                        before |-> [failed_imports |-> statistics.failed_imports,
                                    successful_imports |-> statistics.successful_imports]]
    /\ UNCHANGED <<now, debVars, stats_gen, callVars, existing, watch_folders,
                   saved_folders, observers, nentries, running, is_monitoring>>

\* The files, categories and environments of the calls.
ProcessFiles ==
    {f \in Files : \/ f.name = "Char.foo" /\ f.size \in {0, 2048}
                   \/ f.name = "hero.foo" /\ f.exists /\ f.size \in {0, 2048}
                   \/ f.name = "char.bar" /\ f.exists /\ f.size = 2048}
ProcessCategories == {"characters", "props", "archive", "default"}
ProcessEnvs ==
    {e \in Envs : /\ ~(e.vanishes /\ e.stdout_closed)
                  /\ e.backend = "native" => (e.valid /\ ~e.translated /\ ~e.vanishes)}

NextProcess ==
    \E file \in ProcessFiles, category \in ProcessCategories, env \in ProcessEnvs :
        ProcessSingleFileCall(file, category, env)

SpecProcess == Init /\ [][NextProcess]_vars

\* ------------------------------------------------- batch_import_files
\* The greatest common divisor, for fractions in lowest terms.
RECURSIVE GCD(_, _)
GCD(a, b) == IF b = 0 THEN a ELSE GCD(b, a % b)

\* A faulty rate: the share of successes, not made a percentage.
SuccessRate_NotPercent(successful, total_files) ==
    IF total_files > 0
    THEN [num |-> successful \div GCD(successful, total_files),
          den |-> total_files \div GCD(successful, total_files)]
    ELSE [num |-> 0, den |-> 1]

\* results['success_rate'] of line 486, the quotient as the fraction
\* num/den in lowest terms.
SuccessRate(successful, total_files) ==
    IF total_files > 0
    THEN [num |-> (successful * 100) \div GCD(successful * 100, total_files),
          den |-> total_files \div GCD(successful * 100, total_files)]
    ELSE [num |-> 0, den |-> 1]

\* A faulty loop: an exception of import_file ends it.
BatchRest_AbortOnError(rest, outcome) == IF outcome = "raise" THEN <<>> ELSE rest

\* The paths left to the loop of line 451 after one path: the except
\* clause of line 475 is inside the loop.
BatchRest(rest, outcome) == rest

\* The progress records after the i-th path of n, whose import returned:
\* lines 471-473, the last statement of the try block.
ProgressAfter(progress, i, n) ==
    IF i % 10 = 0 \/ i = n THEN Append(progress, i) ELSE progress

\* The loop of lines 451-481 over the paths left; each path comes with
\* the environment its import meets.
RECURSIVE BatchLoop(_, _)
BatchLoop(results, paths) ==
    IF paths = <<>> THEN results
    ELSE LET p == Head(paths)
             outcome == ImportFile(p.file, p.env)
             attempted == Append(results.attempted, p.file.name)
             progress == ProgressAfter(results.progress, Len(attempted),
                                       results.total_files) IN
         BatchLoop(
            CASE outcome = "True" ->
                    [results EXCEPT !.successful = @ + 1, !.attempted = attempted,
                        !.details = Append(@, [file |-> p.file.name, status |-> "success"]),
                        !.progress = progress]
              [] outcome = "False" ->
                    [results EXCEPT !.failed = @ + 1, !.attempted = attempted,
                        !.details = Append(@, [file |-> p.file.name, status |-> "failed"]),
                        !.progress = progress]
              [] outcome = "raise" ->
                    [results EXCEPT !.failed = @ + 1, !.attempted = attempted,
                        !.details = Append(@, [file |-> p.file.name, status |-> "error"])],
            BatchRest(Tail(paths), outcome))

\* batch_import_files: the results dict it returns, with the import_file
\* calls it made (attempted) and the progress records it logged
\* (progress), and without the timestamps.
BatchImportFiles(paths) ==
    LET looped == BatchLoop([total_files |-> Len(paths), successful |-> 0, failed |-> 0,
                             details |-> <<>>, attempted |-> <<>>, progress |-> <<>>],
                            paths) IN
    [total_files |-> looped.total_files, successful |-> looped.successful,
     failed |-> looped.failed, details |-> looped.details,
     attempted |-> looped.attempted, progress |-> looped.progress,
     success_rate |-> SuccessRate(looped.successful, looped.total_files)]

\* The paths of a batch: a file the backend imports, one it refuses and
\* one whose import raises.
BatchPaths ==
    {[file |-> [name |-> "Char.foo", exists |-> TRUE, size |-> 2048],
      env |-> [vanishes |-> FALSE, backend |-> "mock", valid |-> TRUE,
               translated |-> TRUE, stdout_closed |-> FALSE]],
     [file |-> [name |-> "char.bar", exists |-> TRUE, size |-> 2048],
      env |-> [vanishes |-> FALSE, backend |-> "mock", valid |-> TRUE,
               translated |-> TRUE, stdout_closed |-> FALSE]],
     [file |-> [name |-> "hero.foo", exists |-> TRUE, size |-> 2048],
      env |-> [vanishes |-> FALSE, backend |-> "mock", valid |-> TRUE,
               translated |-> TRUE, stdout_closed |-> TRUE]]}

\* The batch_import_files calls to make: every list of at most
\* MaxBatchFiles paths.
BatchCalls ==
    [op : {"call batch_import_files"}, ret : {""}, msg : {""},
     paths : UNION {[1..n -> BatchPaths] : n \in 0..MaxBatchFiles}]

\* A faulty batch: its results are added to the manager's counters.
StatisticsAfterBatch_Counted(st, results) ==
    [st EXCEPT !.total_processed = @ + results.total_files,
               !.successful_imports = @ + results.successful,
               !.failed_imports = @ + results.failed]

\* self.statistics after batch_import_files: the loop calls
\* translator.import_file itself and counts in its own results dict.
StatisticsAfterBatch(st, results) == st

\* batch_import_files for a list of paths; last_call keeps the paths and
\* gets the results.
BatchImportFilesOf(paths) ==
    /\ last_call' = [op |-> "batch_import_files", ret |-> "results", msg |-> "",
                     paths |-> paths,
                     results |-> BatchImportFiles(paths)]
    /\ statistics' = StatisticsAfterBatch(statistics, BatchImportFiles(paths))
    /\ UNCHANGED <<now, debVars, stats_gen, callVars, existing, watch_folders,
                   saved_folders, observers, nentries, running, is_monitoring>>

\* The call of batch_import_files with the paths drawn at the start.
BatchImportFilesCall ==
    /\ last_call.op = "call batch_import_files"
    /\ BatchImportFilesOf(last_call.paths)

InitBatch == InitWithCall(BatchCalls)
NextBatch == BatchImportFilesCall
SpecBatch == InitBatch /\ [][NextBatch]_vars

\* The batch_import_files calls with lists long enough to hold a tenth
\* path: every list of at most MaxProgressFiles paths.
ProgressCalls ==
    [op : {"call batch_import_files"}, ret : {""}, msg : {""},
     paths : UNION {[1..n -> BatchPaths] : n \in 0..MaxProgressFiles}]

InitProgress == InitWithCall(ProgressCalls)
SpecProgress == InitProgress /\ [][NextBatch]_vars

\* ----------------------------------------------- _matches_file_patterns
\* The paths and pattern lists of the calls.
PatternPaths ==
    {"Hero_Character.foo", "Prop_Barrel.foo", "/char/hero.foo", "/w/a/Char.foo",
     "/w/a/hero.foo", "Char.foo", "hero.foo", "char.FOO", "hero"}
PatternLists ==
    {<<>>, <<"*character*">>, <<"*character*", "*char*">>, <<"*prop*", "*object*">>,
     <<"*CHAR*">>, <<"h?ro.*">>, <<"*.foo">>, <<"hero">>}

MatchCalls ==
    [op : {"call _matches_file_patterns"}, ret : {""}, msg : {""},
     file_path : PatternPaths, patterns : PatternLists]

\* The call of _matches_file_patterns; last_call keeps the arguments and
\* gets the value returned.
MatchesFilePatternsCall ==
    /\ last_call.op = "call _matches_file_patterns"
    /\ last_call' = [last_call EXCEPT
            !.op = "_matches_file_patterns",
            !.ret = IF MatchesFilePatterns(last_call.file_path, last_call.patterns)
                    THEN "True" ELSE "False"]
    /\ UNCHANGED <<now, debVars, statVars, callVars, existing, watch_folders,
                   saved_folders, observers, nentries, running, is_monitoring>>

InitPatterns == InitWithCall(MatchCalls)
NextPatterns == MatchesFilePatternsCall
SpecPatterns == InitPatterns /\ [][NextPatterns]_vars

\* ---------------------------------- get_statistics and generate_report
\* sum(), min() and max() of a list of durations.
RECURSIVE SumSeq(_)
SumSeq(s) == IF s = <<>> THEN 0 ELSE Head(s) + SumSeq(Tail(s))
MinSeq(s) == CHOOSE x \in Range(s) : \A y \in Range(s) : x <= y
MaxSeq(s) == CHOOSE x \in Range(s) : \A y \in Range(s) : y <= x

\* The quotient a / b as the fraction num/den in lowest terms (b > 0).
Quotient(a, b) == [num |-> a \div GCD(a, b), den |-> b \div GCD(a, b)]

\* A faulty get_statistics: the uptime is reported from time 0 when
\* start_time is None.
GetStatisticsOf_UptimeAlways(st, monitoring, folders, t) ==
    st
    @@ [success_rate |-> SuccessRate(st.successful_imports, st.total_processed),
        uptime_seconds |-> IF st.start_time # NoTime THEN t - st.start_time ELSE t,
        uptime_formatted |-> IF st.start_time # NoTime THEN t - st.start_time ELSE t,
        monitoring_enabled |-> monitoring,
        watched_folders |-> Len(folders),
        import_rules |-> Cardinality(DOMAIN ImportRules)]

\* get_statistics at time t: the copy of self.statistics with the derived
\* keys; a key the code does not set is not in the dict.
GetStatisticsOf(st, monitoring, folders, t) ==
    st
    @@ (IF st.processing_times # <<>>
        THEN [average_processing_time |->
                  Quotient(SumSeq(st.processing_times), Len(st.processing_times)),
              min_processing_time |-> MinSeq(st.processing_times),
              max_processing_time |-> MaxSeq(st.processing_times)]
        ELSE EmptyDict)
    @@ [success_rate |-> SuccessRate(st.successful_imports, st.total_processed)]
    @@ (IF st.start_time # NoTime
        THEN [uptime_seconds |-> t - st.start_time, uptime_formatted |-> t - st.start_time]
        ELSE EmptyDict)
    @@ [monitoring_enabled |-> monitoring,
        watched_folders |-> Len(folders),
        import_rules |-> Cardinality(DOMAIN ImportRules)]

GetStatistics == GetStatisticsOf(statistics, is_monitoring, watch_folders, now)

\* The integer nearest to n / d, and the even one of the two when n / d
\* lies halfway between them.
RoundHalfEven(n, d) ==
    LET f == n \div d
        r == n % d IN
    IF 2 * r > d \/ (2 * r = d /\ f % 2 = 1) THEN f + 1 ELSE f

\* The exponent of the float of n / d (n > 0, d > 0): the e with
\* 2^e <= n / d < 2^(e + 1).
RECURSIVE FloorLog2(_, _)
FloorLog2(n, d) ==
    IF n >= 2 * d THEN FloorLog2(n, 2 * d) + 1
    ELSE IF n < d THEN FloorLog2(2 * n, d) - 1
    ELSE 0

\* 2^j modulo m.
RECURSIVE Pow2Mod(_, _)
Pow2Mod(j, m) == IF j = 0 THEN 1 % m ELSE (2 * Pow2Mod(j - 1, m)) % m

\* The greatest power of 5 that divides b.
RECURSIVE PowerOfFive(_)
PowerOfFive(b) == IF b % 5 = 0 THEN 5 * PowerOfFive(b \div 5) ELSE 1

\* The float n / b of a fraction in lowest terms with b = 16 * m, m a power
\* of 5: a decimal fraction that lies halfway between two numbers of a
\* format has such a b.  The float has 53 bits: it is the fraction
\* n * 2^(48 - e) / m, rounded to the nearest integer, times 2^(e - 52).
\* k / m is what the rounding adds, in units of the last bit: the float is
\* the fraction when k = 0, above it when k > 0, below it when k < 0.
FloatError(n, b) ==
    LET m == PowerOfFive(b)
        e == FloorLog2(n, b)
        r == ((n % m) * Pow2Mod(48 - e, m)) % m IN
    [m |-> m, e |-> e, k |-> IF 2 * r < m THEN 0 - r ELSE m - r]

\* f"{x:.3f}" of the float x = sum / len (line 498), sum and len whole
\* numbers and q the fraction sum / len: the number of thousandths nearest
\* to the float.  When the fraction lies halfway, the float lies on one
\* side of it unless it is the fraction.
FormatThousandths(q) ==
    LET n == q.num * 1000
        f == n \div q.den
        k == FloatError(q.num, q.den).k IN
    IF 2 * (n % q.den) # q.den \/ k = 0 THEN RoundHalfEven(n, q.den)
    ELSE IF k > 0 THEN f + 1 ELSE f

\* f"{x:.1f}" of the float x = (successful / total) * 100 (line 503), q the
\* fraction successful * 100 / total: the number of tenths nearest to the
\* float.  The float is rounded twice, by the division and by the product.
\* When q lies halfway, the product of the float of the share and 100 is
\* q + 100 * k / (m * 2^g) in units of the last bit of q, g the distance of
\* the two exponents.  For m < 125, q is a float, and the product is
\* rounded to it unless it is more than half a bit away; for m = 125, q
\* lies c / 5 of a bit above the float below it.
FormatTenths(q) ==
    LET n == q.num * 10
        f == n \div q.den
        d == GCD(q.num, 100 * q.den)
        share == [num |-> q.num \div d, den |-> (100 * q.den) \div d]
        err == FloatError(share.num, share.den)
        eq == FloorLog2(q.num, q.den)
        bit == 2^(eq - err.e)
        away == IF err.k < 0 THEN 0 - err.k ELSE err.k
        c == ((share.num % 5) * Pow2Mod(50 - eq, 5)) % 5
        sum == 2 * c * err.m * bit + 1000 * err.k
        half == 5 * err.m * bit IN
    IF 2 * (n % q.den) # q.den \/ err.k = 0 THEN RoundHalfEven(n, q.den)
    ELSE IF err.m < 125
    THEN IF 200 * away <= err.m * bit THEN RoundHalfEven(n, q.den)
         ELSE IF err.k > 0 THEN f + 1 ELSE f
    ELSE IF sum > half \/ (sum = half /\ c % 2 = 1) THEN f + 1 ELSE f

\* The lines of generate_report at time t, each a label with its value;
\* the lines of the categories come as one set of lines, the order of the
\* dict not being kept here.
GenerateReportOf(stats, folders, t) ==
    <<  <<"INTERCHANGE AUTOMATION REPORT">>,
        <<"Generated", t>>,
        <<"Monitoring Active", IF stats.monitoring_enabled THEN "Yes" ELSE "No">>,
        <<"Watched Folders", stats.watched_folders>>,
        <<"Import Rules", stats.import_rules>> >>
    \o (IF "uptime_formatted" \in DOMAIN stats
        THEN << <<"Uptime", stats.uptime_formatted>> >> ELSE <<>>)
    \o << <<"Total Processed", stats.total_processed>>,
          <<"Successful", stats.successful_imports>>,
          <<"Failed", stats.failed_imports>>,
          <<"Success Rate", FormatTenths(stats.success_rate)>> >>
    \o (IF "average_processing_time" \in DOMAIN stats
           /\ stats.average_processing_time.num # 0
        THEN << <<"Average Processing Time",
                  FormatThousandths(stats.average_processing_time)>>,
                <<"Min Processing Time", stats.min_processing_time * 1000>>,
                <<"Max Processing Time", stats.max_processing_time * 1000>> >>
        ELSE <<>>)
    \o (IF DOMAIN stats.files_per_category # {}
        THEN << <<"FILES BY CATEGORY",
                  {<<c, stats.files_per_category[c]>> :
                      c \in DOMAIN stats.files_per_category}>> >>
        ELSE <<>>)
    \o [i \in DOMAIN folders |->
           <<folders[i].path, folders[i].category,
             IF folders[i].enabled THEN "Enabled" ELSE "Disabled">>]

\* What a report depends on besides the clock.
ReportInputs == [statistics |-> statistics, watch_folders |-> watch_folders,
                 is_monitoring |-> is_monitoring]

\* generate_report() with no output file; last_call holds the text and
\* the state it was made from, and the same of the report before it when
\* no other call came between the two.
GenerateReport ==
    /\ last_call' =
          [op |-> "generate_report", ret |-> "report", msg |-> "",
           report |-> GenerateReportOf(GetStatistics, watch_folders, now),
           inputs |-> ReportInputs,
           previous |-> IF last_call.op = "generate_report"
                        THEN <<[report |-> last_call.report, inputs |-> last_call.inputs]>>
                        ELSE <<>>]
    /\ UNCHANGED <<now, debVars, statVars, callVars, existing, watch_folders,
                   saved_folders, observers, nentries, running, is_monitoring>>

\* The manager whose statistics are read, reported and reset, while
\* monitoring is started and stopped and files are processed.
NextReport ==
    \/ SmEnter(1, {})
    \/ StartMonitoringStep(1)
    \/ StopEnter(1)
    \/ \/ StopNext(1)
       \/ StopClear(1)
       \/ StopFinish(1)
    \/ \E file \in {f \in ProcessFiles : f.name = "Char.foo" /\ f.exists},
          translated \in BOOLEAN :
          ProcessSingleFileCall(file, "characters",
              [vanishes |-> FALSE, backend |-> IF translated THEN "mock" ELSE "native",
               valid |-> TRUE, translated |-> translated, stdout_closed |-> FALSE])
    \/ ResetStatistics(is_monitoring)
    \/ GenerateReport
    \/ now < MaxWatchTime /\ Tick

SpecReport == Init /\ [][NextReport]_vars

\* ------------------------------------------ the history of durations
\* The calls of a long run, one after the other: a file that imports, an
\* empty file, a category whose rule has auto_import off, a category
\* without a rule, a backend that raises, a backend that refuses, and a
\* file that matches no pattern.
TimedInputs ==
    LET mock == [vanishes |-> FALSE, backend |-> "mock", valid |-> TRUE,
                 translated |-> TRUE, stdout_closed |-> FALSE]
        char == [name |-> "Char.foo", exists |-> TRUE, size |-> 2048] IN
    << [file |-> char, category |-> "characters", env |-> mock],
       [file |-> [char EXCEPT !.size = 0], category |-> "characters", env |-> mock],
       [file |-> char, category |-> "archive", env |-> mock],
       [file |-> char, category |-> "default", env |-> mock],
       [file |-> char, category |-> "characters",
        env |-> [mock EXCEPT !.stdout_closed = TRUE]],
       [file |-> char, category |-> "characters",
        env |-> [mock EXCEPT !.backend = "native", !.translated = FALSE]],
       [file |-> [char EXCEPT !.name = "hero.foo"], category |-> "characters",
        env |-> mock] >>

\* A run begins with one of the inputs and takes them in turn; the k-th
\* call lasts k % period seconds.
TimedRuns ==
    [op : {"run process_single_file"}, ret : {""}, msg : {""},
     first : 0 .. Len(TimedInputs) - 1, period : {3, 7}, samples : {<<>>}]

\* The next process_single_file call of the run, which reads the clock
\* for last_activity at some time of its d seconds; last_call keeps the
\* run and the duration of every call made so far.
TimedProcessSingleFileCall ==
    /\ "samples" \in DOMAIN last_call
    /\ Len(last_call.samples) < MaxTimedCalls
    /\ LET n == Len(last_call.samples)
           input == TimedInputs[((last_call.first + n) % Len(TimedInputs)) + 1]
           d == n % last_call.period
           w == WorldOf(input.file, input.category, input.env) IN
       /\ \E ta \in now .. now + d :
            statistics' = ProcessSingleFile(statistics, input.category, w,
                                            now, ta, now + d)
       /\ now' = now + d
       /\ last_call' = [last_call EXCEPT
                           !.op = "process_single_file",
                           !.ret = ProcessSingleFileReturn(input.category, w),
                           !.msg = ProcessOutcome(input.category, w),
                           !.samples = Append(@, d)]
    /\ UNCHANGED <<debVars, stats_gen, callVars, existing, watch_folders,
                   saved_folders, observers, nentries, running, is_monitoring>>

InitTimes == InitWithCall(TimedRuns)
NextTimes == TimedProcessSingleFileCall
SpecTimes == InitTimes /\ [][NextTimes]_vars

\* ------------------------------------- the handler's lock, step by step
\* A faulty flush thread: the `with` block reaches to the end of the loop.
HoldsLock_WhileProcessing(task) == task.pc \in {"locked", "processing", "calling"}

\* A flush thread holds processing_lock from the `with` of line 68 to the
\* end of its block at line 74.
HoldsLock(task) == task.pc = "locked"

\* processing_lock of handler h can be acquired.
LockFree(h) == \A t \in TaskIds : tasks[t].handler = h => ~HoldsLock(tasks[t])

\* _process_queue, line 68: time.sleep(2) has returned and the thread
\* acquires the lock.
ProcessQueueAcquire(t) ==
    /\ tasks[t].pc = "sleeping"
    /\ now >= tasks[t].wake
    /\ LockFree(tasks[t].handler)
    /\ tasks' = [tasks EXCEPT ![t].pc = "locked"]
    /\ UNCHANGED <<now, nhandlers, handler_category, processing_queue, nextId, coalesced,
                   handed, statVars, callVars, mgrVars>>

\* _process_queue, lines 69-74: under the lock, return on an empty queue,
\* else copy the queue and clear it; leaving the block releases the lock.
ProcessQueueRelease(t) ==
    /\ tasks[t].pc = "locked"
    /\ LET h == tasks[t].handler IN
       IF processing_queue[h] = <<>>
       THEN /\ tasks' = [tasks EXCEPT ![t] = DoneTask]
            /\ UNCHANGED processing_queue
       ELSE /\ tasks' = [tasks EXCEPT ![t].pc = "processing",
                                      ![t].items = CopiedQueue(processing_queue[h])]
            /\ processing_queue' = [processing_queue EXCEPT ![h] = ClearedQueue(@)]
    /\ coalesced' = {i \in coalesced : \E h \in HandlerIds :
                        \E k \in DOMAIN processing_queue'[h] : processing_queue'[h][k].id = i}
    /\ UNCHANGED <<now, nhandlers, handler_category, nextId, handed, statVars, callVars, mgrVars>>

\* on_created for a file: _queue_file_for_processing waits for the lock.
OnCreatedFile(h, src_path) == LockFree(h) /\ OnCreated(h, src_path, FALSE)

\* One handler whose event thread and flush threads take the lock in turn.
NextLock ==
    \/ \E p \in EventPaths : MayQueue(1, p) /\ OnCreatedFile(1, p)
    \/ \E t \in TaskIds : ProcessQueueAcquire(t)
    \/ \E t \in TaskIds : ProcessQueueRelease(t)
    \/ \E t \in TaskIds : ProcessQueueCallBegin(t)
    \/ \E t \in TaskIds : ProcessSingleFileStep(FlushCaller(t))
    \/ \E t \in TaskIds : ProcessQueueCallEnd(t)
    \/ Tick

SpecLock == InitDebounce /\ [][NextLock]_vars

\* ---------------------------------------------------- load_configuration
\* _get_default_config: the policy built into the program.
GetDefaultConfig ==
    [watch_folders |-> <<>>,
     import_rules |-> {"characters", "environments", "props"},
     quality_checks |-> DefaultQualityChecks,
     performance |-> [max_concurrent_imports |-> 3, processing_delay_seconds |-> 2,
                      batch_size |-> 10, timeout_seconds |-> 300]]

\* The configuration store as a call finds it: the state of the document
\* at the configured path, the watch folders a valid document holds, and
\* whether writing the document fails.
Stores ==
    [document : {"valid", "missing", "malformed", "incomplete"},
     folders : {<<>>, <<[path |-> <<"/", "w", "a">>, category |-> "characters",
                         enabled |-> TRUE, added_time |-> 0]>>},
     save_raises : BOOLEAN]

\* ConfigManager.load_config raises for a missing file, a parse error or
\* missing required keys.
LoadConfigRaises(store) == store.document # "valid"

\* ConfigManager.load_config when it returns: the policy of the document.
LoadConfig(store) ==
    [GetDefaultConfig EXCEPT
        !.watch_folders = store.folders,
        !.import_rules = {"characters", "environments", "props", "archive"}]

\* A faulty load_configuration: the default policy is not saved.
LoadedConfiguration_NotSaved(store) ==
    IF LoadConfigRaises(store)
    THEN [config |-> GetDefaultConfig,
          invoked |-> <<"load_config", "_get_default_config">>]
    ELSE [config |-> LoadConfig(store), invoked |-> <<"load_config">>]

\* load_configuration: self.config after it and the calls it made.
LoadedConfiguration(store) ==
    IF LoadConfigRaises(store)
    THEN [config |-> GetDefaultConfig,
          invoked |-> <<"load_config", "_get_default_config", "save_configuration">>]
    ELSE [config |-> LoadConfig(store), invoked |-> <<"load_config">>]

\* load_configuration as a call of the control thread.
LoadConfiguration(store) ==
    /\ calls[1].pc = "idle"
    /\ LET loaded == LoadedConfiguration(store) IN
       /\ watch_folders' = loaded.config.watch_folders
       /\ saved_folders' = IF "save_configuration" \in Range(loaded.invoked)
                           THEN SavedFolders(loaded.config, store)
                           ELSE saved_folders
       /\ last_call' = [op |-> "load_configuration", ret |-> "None", msg |-> "",
                        store |-> store, config |-> loaded.config,
                        invoked |-> loaded.invoked]
    /\ UNCHANGED <<now, debVars, statVars, callVars, existing, observers, nentries, running,
                   is_monitoring>>

\* The manager whose configuration is loaded again between changes of
\* its watch folders.
NextConfig ==
    \/ \E store \in Stores : LoadConfiguration(store)
    \/ \E r \in BOOLEAN : SaveConfiguration(1, r)
    \/ \E f \in FolderInputs, e \in BOOLEAN : AwfEnter(1, f, "default", e, {})
    \/ AddWatchFolderStep(1, BOOLEAN)
    \/ \E f \in FolderInputs : RwfEnter(1, f)
    \/ \/ RwfStore(1)
       \/ \E r \in BOOLEAN : RwfSave(1, r)
       \/ RwfTest(1)

SpecConfig == Init /\ [][NextConfig]_vars

\* ------------------------------- the calls of a flush thread in progress
\* The path whose process_single_file call a flush thread is in.
CallingFor(t) == Head(tasks[t].items).path

\* ------------------------------- batch_import_files among other calls
\* The lists of a batch call made between other calls.
FramePaths == UNION {[1..n -> BatchPaths] : n \in 0..2}

\* A manager that processes single files, watches a folder, and is asked
\* for batches in between.
NextBatchFrame ==
    \/ \E paths \in FramePaths : BatchImportFilesOf(paths)
    \/ \E file \in {f \in ProcessFiles : f.name = "Char.foo" /\ f.exists},
          translated \in BOOLEAN :
          ProcessSingleFileCall(file, "characters",
              [vanishes |-> FALSE, backend |-> IF translated THEN "mock" ELSE "native",
               valid |-> TRUE, translated |-> translated, stdout_closed |-> FALSE])
    \/ AwfEnter(1, <<"a">>, "characters", TRUE, {})
    \/ SmEnter(1, {})
    \/ StopEnter(1)
    \/ AddWatchFolderStep(1, {FALSE})
    \/ StartFolderMonitoringStep(1)
    \/ StartMonitoringStep(1)
    \/ StopMonitoringStep(1)

SpecBatchFrame == Init /\ [][NextBatchFrame]_vars

\* ----------------------------------------------------- the claims
\* Every process_single_file call a flush thread has made.
HandedCalls == UNION {Range(handed[t]) : t \in TaskIds}
HandedIds == {r.id : r \in HandedCalls}
Abs(x) == IF x < 0 THEN -x ELSE x

\* C1: processing_queue holds at most one entry per file path in every
\* reachable state, whatever the interleaving of events and flush threads.
C1_OneEntryPerPath ==
    \A h \in HandlerIds : \A i, j \in DOMAIN processing_queue[h] :
        i # j => processing_queue[h][i].path # processing_queue[h][j].path

\* A raw event arrived for a path that was queued, and the queue still
\* holds one entry for it.
C1_Witness ==
    \E h \in HandlerIds : \E k \in DOMAIN processing_queue[h] :
        processing_queue[h][k].id \in coalesced

\* C2: no queue entry is handed to process_single_file twice, by one flush
\* thread or by two, and every entry handed is one that was appended and
\* has left the queue.
C2_HandedAtMostOnce ==
    /\ \A t1, t2 \in TaskIds :
         \A i \in DOMAIN handed[t1], j \in DOMAIN handed[t2] :
            handed[t1][i].id = handed[t2][j].id => t1 = t2 /\ i = j
    /\ \A r \in HandedCalls :
         /\ r.id \in 1..(nextId - 1)
         /\ \A h \in HandlerIds : \A k \in DOMAIN processing_queue[h] :
                processing_queue[h][k].id # r.id

\* Two flush threads were pending for one queue: one took both entries,
\* the other found the queue empty and returned.
C2_Witness ==
    \E t1, t2 \in TaskIds :
        /\ t1 # t2
        /\ Len(handed[t1]) >= 2
        /\ tasks[t2].pc = "done" /\ handed[t2] = <<>>

\* C3: no entry is handed to process_single_file before SleepSeconds have
\* passed since it was appended.
C3_HandedAfterQuiescence ==
    \A r \in HandedCalls : r.at - r.queued_at >= SleepSeconds

\* C4 (its safety half): the events for one path that arrive within one
\* quiescence window lead to one process_single_file call for it, so two
\* entries of one path that were both handed were appended at least
\* SleepSeconds apart.
C4_OneCallPerBurst ==
    \A r1, r2 \in HandedCalls :
        (r1.id # r2.id /\ r1.handler = r2.handler /\ r1.path = r2.path)
            => Abs(r1.queued_at - r2.queued_at) >= SleepSeconds

\* C5: under weak fairness every appended entry is eventually handed to
\* process_single_file.
C5_EveryEntryHanded ==
    \A id \in TaskIds : (id < nextId) ~> (id \in HandedIds)

\* A flush thread found the queue empty and returned, and every entry
\* that was appended has been handed.
C5_Witness ==
    /\ nextId > 2
    /\ \E t \in TaskIds : t < nextId /\ tasks[t].pc = "done" /\ handed[t] = <<>>
    /\ \A id \in 1..(nextId - 1) : id \in HandedIds

RECURSIVE SumOver(_, _)
SumOver(f, S) == IF S = {} THEN 0
                 ELSE LET x == CHOOSE y \in S : TRUE IN f[x] + SumOver(f, S \ {x})

\* C6: no increment of the statistics is lost: when k calls of
\* process_single_file have returned, none is in progress and the
\* statistics were never reset, total_processed is k and the per-category
\* counts sum to k.
C6_NoLostIncrement ==
    (stats_gen = 0 /\ \A c \in Callers : calls[c].pc = "idle")
        => /\ statistics.total_processed = completed
           /\ SumOver(statistics.files_per_category,
                      DOMAIN statistics.files_per_category) = completed

\* C7: config['watch_folders'], empty at the start, holds no two entries of
\* one absolute path after any step of a sequence of calls, and an
\* add_watch_folder for a path that is present returns False at once and
\* leaves the list as it was.
C7_OneEntryPerAbsPath ==
    [][/\ \A i, j \in DOMAIN watch_folders' :
            i # j => watch_folders'[i].path # watch_folders'[j].path
       /\ \A f \in FolderInputs, c \in Categories, e \in BOOLEAN, fail \in BOOLEAN :
            (/\ AbsPath(f) \in WatchedPaths(watch_folders)
             /\ AwfEnter(1, f, c, e, IF fail THEN {AbsPath(f)} ELSE {}))
                => /\ last_call'.op = "add_watch_folder"
                   /\ last_call'.ret = "False"
                   /\ calls'[1].pc = "idle"
                   /\ watch_folders' = watch_folders]_vars

\* add_watch_folder was refused for a folder that exists and is present,
\* given by another spelling of its path than the entry holds.
C7_Witness ==
    /\ last_call.op = "add_watch_folder"
    /\ last_call.msg = "Folder already being monitored"
    /\ last_call.ret = "False"
    /\ calls[1].pc = "idle"
    /\ Len(watch_folders) = 2

\* C8: a start_monitoring call made while is_monitoring is true returns
\* True and leaves the observers, is_monitoring and statistics['start_time']
\* as they were; no observer is built.
C8_StartIsIdempotent ==
    [][\A c \in Callers, fails \in SUBSET InitialFolders :
          (SmEnter(c, fails) /\ is_monitoring)
          => /\ last_call'.op = "start_monitoring"
             /\ last_call'.ret = "True"
             /\ calls'[c].pc = "idle"
             /\ observers' = observers
             /\ running' = running
             /\ nhandlers' = nhandlers
             /\ is_monitoring' = is_monitoring
             /\ statistics'.start_time = statistics.start_time]_vars

\* start_monitoring was called while monitoring ran, with an observer
\* attached, a full second after monitoring was started.
C8_Witness ==
    /\ last_call.op = "start_monitoring"
    /\ last_call.msg = "Monitoring is already running"
    /\ calls[1].pc = "idle"
    /\ is_monitoring
    /\ DOMAIN observers # {}
    /\ now > statistics.start_time

\* C9: a stop_monitoring call made while monitoring runs returns with every
\* observer stopped, self.observers empty and is_monitoring false, and it
\* does not raise; made while monitoring does not run it returns at once
\* and changes nothing.
C9_StopStopsAll ==
    [][/\ StopFinish(1) =>
            /\ observers' = EmptyDict
            /\ running' = {}
            /\ ~is_monitoring'
       /\ last_call'.op = "stop_monitoring" => last_call'.ret = "None"
       /\ (StopEnter(1) /\ ~is_monitoring) =>
            /\ calls'[1].pc = "idle"
            /\ observers' = observers
            /\ running' = running
            /\ is_monitoring' = is_monitoring
            /\ statistics' = statistics
            /\ watch_folders' = watch_folders
            /\ saved_folders' = saved_folders]_vars

\* stop_monitoring has stopped a running watcher set that had observers.
C9_Witness ==
    /\ last_call.op = "stop_monitoring"
    /\ last_call.msg = "Stopped all monitoring"
    /\ calls[1].pc = "idle"
    /\ nhandlers = 2
    /\ observers = EmptyDict
    /\ running = {}
    /\ ~is_monitoring

\* C10: once stop_monitoring has returned, no flush thread that was
\* sleeping at the stop goes on to drain a batch of its queue.
C10_NoFlushAfterStop ==
    [][(last_call.op = "stop_monitoring" /\ ~is_monitoring)
          => \A t \in TaskIds :
                ~(tasks[t].pc = "sleeping" /\ tasks'[t].pc = "processing")]_vars

\* C11: in a sequence of calls made while monitoring runs, an
\* add_watch_folder of a new existing folder whose observer starts returns
\* True with a running observer recorded for the folder and its entry in
\* the list, and a remove_watch_folder returns with the folder's observer
\* stopped and neither observer nor entry left for it; no step of either
\* call changes the entries or the observers of another folder.
OthersUnchanged(p) ==
    /\ \A q \in (DOMAIN observers \cup DOMAIN observers') \ {p} :
          /\ q \in DOMAIN observers /\ q \in DOMAIN observers'
          /\ observers'[q] = observers[q]
          /\ (observers[q].id \in running) = (observers'[q].id \in running')
    /\ WithoutPath(watch_folders', p) = WithoutPath(watch_folders, p)

C11_LiveAddRemove ==
    [][is_monitoring =>
        /\ (/\ OpOf(1) = "add_watch_folder"
            /\ calls'[1].pc = "idle"
            /\ calls[1].entry.path \in existing
            /\ calls[1].entry.path \notin calls[1].fails)
             => LET p == calls[1].entry.path IN
                /\ last_call'.ret = "True"
                /\ p \in DOMAIN observers'
                /\ observers'[p].id \in running'
                /\ observers'[p].id = calls[1].ref
                /\ p \in WatchedPaths(watch_folders')
        /\ (OpOf(1) = "remove_watch_folder" /\ calls'[1].pc = "idle")
             => LET p == calls[1].path IN
                /\ last_call'.ret = "None"
                /\ p \notin DOMAIN observers'
                /\ p \notin WatchedPaths(watch_folders')
                /\ p \in DOMAIN observers => observers[p].id \notin running'
        /\ (AddWatchFolderStep(1, BOOLEAN)
              \/ (OpOf(1) = "add_watch_folder" /\ StartFolderMonitoringStep(1)))
             => OthersUnchanged(calls[1].entry.path)
        /\ RemoveWatchFolderStep(1, BOOLEAN) => OthersUnchanged(calls[1].path)]_vars

\* While monitoring runs, with another folder watched by a running
\* observer, a folder was added and got its observer, or a watched folder
\* was removed and lost it.
C11_Witness ==
    /\ is_monitoring
    /\ calls[1].pc = "idle"
    /\ \/ /\ last_call.op = "add_watch_folder" /\ last_call.ret = "True"
          /\ Len(watch_folders) = 2
          /\ \A i \in DOMAIN watch_folders :
                /\ watch_folders[i].path \in DOMAIN observers
                /\ observers[watch_folders[i].path].id \in running
       \/ /\ last_call.op = "remove_watch_folder"
          /\ last_call.msg = "Removed watch folder"
          /\ Len(watch_folders) = 1
          /\ watch_folders[1].path \in DOMAIN observers
          /\ observers[watch_folders[1].path].id \in running
          /\ nhandlers = 2

\* C12: a start_monitoring call that finds monitoring off returns True with
\* is_monitoring set; an enabled entry whose folder is gone, or whose
\* observer fails to start, has no observer then, and every other enabled
\* entry has its running observer.
C12_StartSkipsBadFolders ==
    [][/\ SmFinish(1) =>
            /\ last_call'.ret = "True"
            /\ is_monitoring'
            /\ \A i \in DOMAIN watch_folders :
                  LET w == watch_folders[i] IN
                  w.enabled =>
                    IF w.path \in existing /\ w.path \notin calls[1].fails
                    THEN /\ w.path \in DOMAIN observers'
                         /\ observers'[w.path].id \in running'
                    ELSE w.path \notin DOMAIN observers'
       /\ last_call'.op = "start_monitoring" => last_call'.ret = "True"]_vars

\* start_monitoring has run over two enabled entries, the first of a
\* folder that is gone from the disk: only the second has an observer.
C12_Witness ==
    /\ last_call.op = "start_monitoring"
    /\ last_call.msg = "Started monitoring"
    /\ calls[1].pc = "idle"
    /\ is_monitoring
    /\ Len(watch_folders) = 2
    /\ watch_folders[1].enabled /\ watch_folders[2].enabled
    /\ watch_folders[1].path \notin existing
    /\ watch_folders[1].path \notin DOMAIN observers
    /\ watch_folders[2].path \in DOMAIN observers
    /\ observers[watch_folders[2].path].id \in running

\* A _perform_quality_checks call that has returned.
GateReturned == last_call.op = "_perform_quality_checks"

\* C19: with an enabled policy the gate fails an existing file whose size
\* is above max_file_size_mb x 1,000,000 bytes or below
\* min_file_size_bytes, and lets every other size past both size checks.
C19_SizeLimitsDecimal ==
    (GateReturned /\ last_call.qc.enabled /\ last_call.file.exists
        /\ ~last_call.env.vanishes) =>
        LET size == last_call.file.size
            qc == last_call.qc IN
        IF size > qc.max_file_size_mb * 1000000
        THEN last_call.ret = "fail" /\ last_call.msg = "File too large"
        ELSE IF size < qc.min_file_size_bytes
        THEN last_call.ret = "fail" /\ last_call.msg = "File too small"
        ELSE last_call.msg \notin {"File too large", "File too small"}

\* C20: with an enabled policy the gate checks existence, size above the
\* maximum, size below the minimum, the extension and the backend
\* validation in this order and stops at the first check that fails: the
\* message is that check's, and no later check is evaluated.
GateOrder == <<"exists", "too_large", "too_small", "extension", "validate">>

GateCheckFails(check, file, qc, env) ==
    CASE check = "exists" -> ~file.exists
      [] check = "too_large" -> file.size > qc.max_file_size_mb * 1024 * 1024
      [] check = "too_small" -> file.size < qc.min_file_size_bytes
      [] check = "extension" ->
            /\ qc.allowed_extensions # <<>>
            /\ Lower(SplitExt(Chars[file.name])) \notin
                  {Chars[qc.allowed_extensions[i]] : i \in DOMAIN qc.allowed_extensions}
      [] check = "validate" -> ~ValidateFile(file, env)

GateMessage(check) ==
    CASE check = "exists" -> "File does not exist"
      [] check = "too_large" -> "File too large"
      [] check = "too_small" -> "File too small"
      [] check = "extension" -> "File extension not in allowed list"
      [] check = "validate" -> "File validation failed"

C20_GateOrder ==
    (GateReturned /\ last_call.qc.enabled /\ ~last_call.env.vanishes) =>
        LET failing == {k \in DOMAIN GateOrder :
                          GateCheckFails(GateOrder[k], last_call.file, last_call.qc,
                                         last_call.env)} IN
        IF failing = {}
        THEN last_call.ret = "pass"
        ELSE LET first == CHOOSE k \in failing : \A j \in failing : k <= j IN
             /\ last_call.ret = "fail"
             /\ last_call.msg = GateMessage(GateOrder[first])
             /\ \A i \in DOMAIN last_call.evaluated :
                   \E k \in 1..first : last_call.evaluated[i] = GateOrder[k]
             /\ last_call.evaluated[Len(last_call.evaluated)] = GateOrder[first]

\* The gate has turned down an existing file that is too small, has an
\* extension that is not allowed and is not valid for the backend: the
\* message is that of the size, and the later checks were not made.
C20_Witness ==
    /\ GateReturned
    /\ last_call.qc.enabled
    /\ last_call.file.exists
    /\ last_call.file.name = "char.txt"
    /\ last_call.file.size = 0
    /\ last_call.qc.min_file_size_bytes = 1024
    /\ last_call.qc.allowed_extensions # <<>>
    /\ ~ValidateFile(last_call.file, last_call.env)
    /\ last_call.msg = "File too small"
    /\ last_call.evaluated = <<"exists", "too_large", "too_small">>

\* A process_single_file call that has returned, and facts about its
\* arguments.
PsfReturned == last_call.op = "process_single_file"
PsfHasRule == last_call.category \in DOMAIN ImportRules
PsfMatchesNoPattern ==
    /\ PsfHasRule
    /\ ImportRules[last_call.category].file_patterns # <<>>
    /\ \A i \in DOMAIN ImportRules[last_call.category].file_patterns :
          ~FnMatch(Lower(Chars[last_call.file.name]),
                   Lower(Chars[ImportRules[last_call.category].file_patterns[i]]))
PsfGatePasses ==
    PerformQualityChecks(last_call.file, DefaultQualityChecks, last_call.env).result = "pass"

\* C13 as stated: for any file whose base name matches none of the
\* patterns of its category's rule, process_single_file leaves
\* failed_imports as it was.
C13_AnyPatternMissNotFailed ==
    (PsfReturned /\ PsfMatchesNoPattern)
        => statistics.failed_imports = last_call.before.failed_imports

\* C13, amended: for a file that passes the quality gate and whose base
\* name matches none of the patterns of its category's auto-import rule,
\* process_single_file returns False and leaves failed_imports and
\* successful_imports as they were.
C13_PatternMissNotFailed ==
    (PsfReturned /\ PsfMatchesNoPattern /\ PsfGatePasses)
        => /\ last_call.ret = "False"
           /\ statistics.failed_imports = last_call.before.failed_imports
           /\ statistics.successful_imports = last_call.before.successful_imports

\* A valid file named hero.foo was processed for the category characters
\* after a call that had failed: it is a pattern miss.
C13_Witness ==
    /\ PsfReturned
    /\ last_call.file.name = "hero.foo"
    /\ last_call.category = "characters"
    /\ PsfMatchesNoPattern
    /\ PsfGatePasses
    /\ last_call.msg = "pattern_miss"
    /\ last_call.before.failed_imports = 1
    /\ statistics.total_processed = 2

\* C14: process_single_file for a category that has no import rule, or
\* whose rule has auto_import off, returns False, changes neither
\* successful_imports nor failed_imports, and calls neither the quality
\* gate nor the translator's import.
C14_NoRuleOrAutoImportOff ==
    (PsfReturned /\ (~PsfHasRule \/ ~ImportRules[last_call.category].auto_import))
        => /\ last_call.ret = "False"
           /\ statistics.failed_imports = last_call.before.failed_imports
           /\ statistics.successful_imports = last_call.before.successful_imports
           /\ \A i \in DOMAIN last_call.invoked :
                 last_call.invoked[i] \notin {"_perform_quality_checks", "import_file"}

\* A file the backend would import was processed for the category
\* archive, whose rule has auto_import off, and the call was counted.
C14_Witness ==
    /\ PsfReturned
    /\ last_call.category = "archive"
    /\ ~ImportRules["archive"].auto_import
    /\ last_call.file = [name |-> "Char.foo", exists |-> TRUE, size |-> 2048]
    /\ ImportFile(last_call.file, last_call.env) = "True"
    /\ last_call.ret = "False"
    /\ statistics.total_processed = 1
    /\ statistics.files_per_category["archive"] = 1

\* C15: process_single_file returns True or False whatever happens; when
\* the quality gate, set_options or import_file raises, or import_file
\* returns False, it returns False, failed_imports is one more than
\* before and successful_imports is as before.
PsfRaisesOrImportFails ==
    /\ PsfHasRule
    /\ ImportRules[last_call.category].auto_import
    /\ LET gate == PerformQualityChecks(last_call.file, DefaultQualityChecks,
                                        last_call.env).result IN
       \/ gate = "raise"
       \/ /\ gate = "pass"
          /\ ~PsfMatchesNoPattern
          /\ \/ HasTranslatorOptions(last_call.category) /\ SetOptionsRaises(last_call.env)
             \/ ImportFile(last_call.file, last_call.env) \in {"raise", "False"}

C15_ExceptionsCountAsFailed ==
    PsfReturned =>
        /\ last_call.ret \in {"True", "False"}
        /\ PsfRaisesOrImportFails =>
              /\ last_call.ret = "False"
              /\ statistics.failed_imports = last_call.before.failed_imports + 1
              /\ statistics.successful_imports = last_call.before.successful_imports

\* A call whose import raised was counted as failed, after a call that
\* had succeeded.
C15_Witness ==
    /\ PsfReturned
    /\ last_call.msg = "exception"
    /\ last_call.env.stdout_closed
    /\ last_call.invoked[Len(last_call.invoked)] = "import_file"
    /\ last_call.before.successful_imports = 1
    /\ statistics.failed_imports = last_call.before.failed_imports + 1

BatchReturned == last_call.op = "batch_import_files"

\* The tag of a detail record for a result of import_file.
BatchTag(outcome) ==
    CASE outcome = "True" -> "success"
      [] outcome = "False" -> "failed"
      [] outcome = "raise" -> "error"

\* C17: batch_import_files attempts every path once, in list order,
\* whatever the imports return or raise; details holds one record per
\* path in that order, tagged success, failed or error for an import
\* that returned True, returned False or raised; and
\* successful + failed = total_files = len(file_paths).
C17_BatchNeverAborts ==
    BatchReturned =>
        LET paths == last_call.paths
            r == last_call.results IN
        /\ r.attempted = [i \in DOMAIN paths |-> paths[i].file.name]
        /\ Len(r.details) = Len(paths)
        /\ \A i \in DOMAIN paths :
              /\ r.details[i].file = paths[i].file.name
              /\ r.details[i].status = BatchTag(ImportFile(paths[i].file, paths[i].env))
        /\ r.total_files = Len(paths)
        /\ r.successful + r.failed = r.total_files
        /\ r.successful = Cardinality({i \in DOMAIN paths :
                              ImportFile(paths[i].file, paths[i].env) = "True"})

\* A batch of three paths has returned whose first import raised, whose
\* second was refused and whose third succeeded.
C17_Witness ==
    /\ BatchReturned
    /\ Len(last_call.paths) = 3
    /\ [i \in 1..3 |-> last_call.results.details[i].status]
          = <<"error", "failed", "success">>
    /\ last_call.results.successful = 1
    /\ last_call.results.failed = 2

\* C18: success_rate is successful / total_files as a percentage, and 0
\* for an empty list; five paths of which two fail give successful = 3,
\* failed = 2 and success_rate = 60.
C18_SuccessRate ==
    BatchReturned =>
        LET r == last_call.results IN
        /\ IF Len(last_call.paths) = 0
           THEN r.success_rate = [num |-> 0, den |-> 1]
           ELSE r.success_rate.num * r.total_files = r.successful * 100 * r.success_rate.den
        /\ (Len(last_call.paths) = 5
              /\ Cardinality({i \in 1..5 : ImportFile(last_call.paths[i].file,
                                               last_call.paths[i].env) # "True"}) = 2)
            => /\ r.successful = 3
               /\ r.failed = 2
               /\ r.success_rate = [num |-> 60, den |-> 1]

\* A batch of five paths has returned, two of which failed (one refused,
\* one by an exception): the rate is 60.
C18_Witness ==
    /\ BatchReturned
    /\ Len(last_call.paths) = 5
    /\ last_call.results.failed = 2
    /\ \E i, j \in 1..5 : /\ last_call.results.details[i].status = "failed"
                          /\ last_call.results.details[j].status = "error"
    /\ last_call.results.success_rate = [num |-> 60, den |-> 1]

\* C21: with a non-empty allowed_extensions list, a file that reaches the
\* extension check passes it exactly when its extension equals an entry
\* of the list, letter case ignored on both sides.
C21_ExtensionCaseInsensitive ==
    (/\ GateReturned
     /\ last_call.qc.enabled
     /\ last_call.qc.allowed_extensions # <<>>
     /\ last_call.ret # "raise"
     /\ last_call.msg \notin {"File does not exist", "File too large", "File too small"})
    => LET ext == Lower(SplitExt(Chars[last_call.file.name]))
           allowed == {Lower(Chars[last_call.qc.allowed_extensions[i]]) :
                          i \in DOMAIN last_call.qc.allowed_extensions} IN
       (last_call.msg # "File extension not in allowed list") <=> (ext \in allowed)

\* A _matches_file_patterns call that has returned.
MatchReturned == last_call.op = "_matches_file_patterns"

\* The part of a path after its last "/", and whether one sequence of
\* characters occurs inside another.
AfterLastSlash(s) ==
    IF \E i \in DOMAIN s : s[i] = "/"
    THEN LET k == CHOOSE i \in DOMAIN s : s[i] = "/" /\ \A j \in (i + 1)..Len(s) : s[j] # "/"
         IN [i \in 1..(Len(s) - k) |-> s[k + i]]
    ELSE s
Occurs(sub, s) ==
    \E k \in 0..(Len(s) - Len(sub)) : \A i \in DOMAIN sub : s[k + i] = sub[i]

\* C22: _matches_file_patterns returns True exactly when the list is
\* empty or the base name of the path, lowercased, matches one of the
\* patterns, lowercased, as a glob; the directories of the path play no
\* part.  ["*character*"] matches Hero_Character.foo and not
\* Prop_Barrel.foo.
C22_PatternsOnBasename ==
    MatchReturned =>
        LET base == Lower(AfterLastSlash(Chars[last_call.file_path]))
            pats == last_call.patterns IN
        /\ (last_call.ret = "True") <=>
              (pats = <<>> \/ \E i \in DOMAIN pats : FnMatch(base, Lower(Chars[pats[i]])))
        /\ \A i \in DOMAIN pats :
              \* a pattern "*x*" is met by the base names that hold x
              (pats[i] \in {"*character*", "*char*", "*CHAR*", "*prop*", "*object*"}
                  /\ Len(pats) = 1)
              => ((last_call.ret = "True") <=>
                    Occurs(Lower(SubSeq(Chars[pats[i]], 2, Len(Chars[pats[i]]) - 1)), base))
        /\ (last_call.file_path = "Hero_Character.foo" /\ pats = <<"*character*">>)
              => last_call.ret = "True"
        /\ (last_call.file_path = "Prop_Barrel.foo" /\ pats = <<"*character*">>)
              => last_call.ret = "False"

\* A path whose directory holds "char" and whose base name does not was
\* matched against ["*character*", "*char*"] and turned down.
C22_Witness ==
    /\ MatchReturned
    /\ last_call.file_path = "/char/hero.foo"
    /\ last_call.patterns = <<"*character*", "*char*">>
    /\ last_call.ret = "False"

\* C25: every process_single_file call, whatever branch it takes, adds
\* one to total_processed and to files_per_category[category], leaves the
\* counts of the other categories alone and sets last_activity to the
\* time of the call.
C25_EveryCallCounted ==
    [][last_call'.op = "process_single_file" =>
          LET c == last_call'.category IN
          /\ statistics'.total_processed = statistics.total_processed + 1
          /\ c \in DOMAIN statistics'.files_per_category
          /\ statistics'.files_per_category[c] = Get(statistics.files_per_category, c, 0) + 1
          /\ \A k \in DOMAIN statistics'.files_per_category \ {c} :
                /\ k \in DOMAIN statistics.files_per_category
                /\ statistics'.files_per_category[k] = statistics.files_per_category[k]
          /\ statistics'.last_activity = now]_vars

\* Two calls were made, the second a skip for a category without a rule
\* and the other not: both are counted.
C25_Witness ==
    /\ PsfReturned
    /\ last_call.msg = "no_rule"
    /\ statistics.total_processed = 2
    /\ statistics.files_per_category[last_call.category] = 1
    /\ statistics.successful_imports = 1
    /\ statistics.last_activity = now

\* C26: when the category has a rule with auto_import on and the quality
\* gate rejects the file, process_single_file adds one to failed_imports,
\* returns False and calls neither set_options nor import_file.
C26_GateRejectionCounted ==
    (/\ PsfReturned
     /\ PsfHasRule
     /\ ImportRules[last_call.category].auto_import
     /\ PerformQualityChecks(last_call.file, DefaultQualityChecks, last_call.env).result
           = "fail")
    => /\ last_call.ret = "False"
       /\ statistics.failed_imports = last_call.before.failed_imports + 1
       /\ statistics.successful_imports = last_call.before.successful_imports
       /\ \A i \in DOMAIN last_call.invoked :
             last_call.invoked[i] \notin {"set_options", "import_file"}

\* A file that is too small was processed for the category characters,
\* whose patterns it matches: the gate turned it down.
C26_Witness ==
    /\ PsfReturned
    /\ last_call.category = "characters"
    /\ last_call.file = [name |-> "Char.foo", exists |-> TRUE, size |-> 0]
    /\ last_call.msg = "quality_failed"
    /\ last_call.invoked = <<"_perform_quality_checks">>
    /\ statistics.failed_imports = last_call.before.failed_imports + 1

\* C23: reset_statistics sets the three counters to zero, empties
\* files_per_category and processing_times, clears last_activity, and sets
\* start_time to the present time when monitoring is on and to None when
\* it is off; get_statistics right after it reports an uptime exactly
\* when monitoring is on.
C23_ResetRearmsStartTime ==
    [][stats_gen' # stats_gen =>
          /\ statistics'.total_processed = 0
          /\ statistics'.successful_imports = 0
          /\ statistics'.failed_imports = 0
          /\ statistics'.files_per_category = EmptyDict
          /\ statistics'.processing_times = <<>>
          /\ statistics'.last_activity = NoTime
          /\ statistics'.start_time = (IF is_monitoring THEN now ELSE NoTime)
          /\ ("uptime_seconds" \in DOMAIN GetStatistics') = is_monitoring
          /\ is_monitoring => GetStatistics'.uptime_seconds = 0]_vars

\* Monitoring began at time 0, a file was processed, and the statistics
\* were reset at time 1: the counters are zero and start_time is 1.
C23_Witness ==
    /\ stats_gen = 1
    /\ is_monitoring
    /\ last_call.op = "process_single_file"
    /\ statistics.total_processed = 0
    /\ now = 1
    /\ statistics.start_time = 1
    /\ GetStatistics.uptime_seconds = 0

\* C24: two generate_report calls with no change of the statistics, the
\* watch folders or the monitoring flag between them return the same text.
C24_ReportDeterministic ==
    (/\ last_call.op = "generate_report"
     /\ last_call.previous # <<>>
     /\ last_call.previous[1].inputs = last_call.inputs)
        => last_call.previous[1].report = last_call.report

\* C27: every process_single_file call, whatever its outcome, appends one
\* duration to processing_times, and after n calls the list holds the
\* durations of the last min(n, 100) calls in call order, never more than
\* 100 of them.
C27_LastHundredDurations ==
    "samples" \in DOMAIN last_call =>
        LET n == Len(last_call.samples)
            k == IF n < 100 THEN n ELSE 100 IN
        /\ statistics.total_processed = n
        /\ Len(statistics.processing_times) = k
        /\ statistics.processing_times = SubSeq(last_call.samples, n - k + 1, n)

\* 102 calls were made, the last of them ended by an exception; the list
\* holds 100 durations and the two oldest are gone.
C27_Witness ==
    /\ "samples" \in DOMAIN last_call
    /\ Len(last_call.samples) = 102
    /\ last_call.msg = "exception"
    /\ Len(statistics.processing_times) = 100
    /\ statistics.processing_times # SubSeq(last_call.samples, 1, 100)

\* C28: a flush thread does not hold processing_lock while it calls
\* process_single_file for the entries of its snapshot: unless another
\* flush thread is inside its `with` block at that moment, an event for a
\* path not in the queue can take the lock and append its entry.
C28_ProcessingOutsideLock ==
    \A t \in TaskIds :
        tasks[t].pc \in {"processing", "calling"} =>
            /\ ~HoldsLock(tasks[t])
            /\ \A p \in EventPaths :
                  (/\ \A u \in TaskIds : tasks[u].pc # "locked"
                   /\ nextId <= MaxEvents
                   /\ ~AlreadyQueued(processing_queue[tasks[t].handler], p))
                      => ENABLED OnCreatedFile(tasks[t].handler, p)

\* A flush thread is inside process_single_file for the first entry of
\* its snapshot, at the import, and the queue holds an entry appended
\* after the call began.
C28_Witness ==
    \E t \in TaskIds :
        /\ tasks[t].pc = "calling"
        /\ calls[FlushCaller(t)].pc = "decide"
        /\ handed[t] # <<>>
        /\ \E k \in DOMAIN processing_queue[tasks[t].handler] :
              /\ processing_queue[tasks[t].handler][k].id > handed[t][1].id
              /\ processing_queue[tasks[t].handler][k].timestamp >= handed[t][1].at

\* C29: the entries of one drained batch are handed to process_single_file
\* in the order in which they were appended to the queue: of two entries
\* handed by one flush thread the one appended first is handed first, and
\* the entries the thread has yet to hand were appended after all those it
\* has handed and stand in append order.
C29_BatchInAppendOrder ==
    \A t \in TaskIds :
        LET left == IF tasks[t].pc = "calling" THEN Tail(tasks[t].items)
                    ELSE tasks[t].items
            batch == [i \in DOMAIN handed[t] |-> handed[t][i].id]
                     \o [i \in DOMAIN left |-> left[i].id] IN
        \A i, j \in DOMAIN batch : i < j => batch[i] < batch[j]

\* One flush thread has handed two entries of its batch, appended at
\* different times.
C29_Witness ==
    \E t \in TaskIds :
        /\ Len(handed[t]) >= 2
        /\ handed[t][1].id < handed[t][2].id
        /\ handed[t][1].queued_at < handed[t][2].queued_at

\* The progress records of a call for n paths as stated: one after every
\* tenth path and one after the last.
ProgressStated(n) == SelectSeq([i \in 1..n |-> i], LAMBDA i : i % 10 = 0 \/ i = n)

\* C30: batch_import_files logs a progress record after every tenth path
\* and after the last path of the list, whatever import_file returns or
\* raises for any of them.
C30_ProgressEveryTenthAndLast ==
    BatchReturned =>
        last_call.results.progress = ProgressStated(Len(last_call.paths))

\* C31: get_statistics reports success_rate as 100 * successful_imports /
\* total_processed, and 0 when nothing was processed; it holds the uptime
\* keys exactly when start_time is set, and start_time is set only by a
\* start_monitoring call that finds monitoring off or by a step made while
\* monitoring is on, so that a manager whose monitoring was never started
\* reports no uptime.
C31_SuccessRateAndUptime ==
    /\ [](LET stats == GetStatistics IN
          /\ IF statistics.total_processed = 0
             THEN stats.success_rate = [num |-> 0, den |-> 1]
             ELSE stats.success_rate.num * statistics.total_processed
                     = 100 * statistics.successful_imports * stats.success_rate.den
          /\ ("uptime_seconds" \in DOMAIN stats) = (statistics.start_time # NoTime)
          /\ ("uptime_formatted" \in DOMAIN stats) = (statistics.start_time # NoTime)
          /\ statistics.start_time # NoTime => stats.uptime_seconds = now - statistics.start_time)
    /\ [][statistics.start_time = NoTime /\ statistics'.start_time # NoTime
             => \/ is_monitoring /\ is_monitoring'
                \/ ~is_monitoring /\ \E c \in Callers : SmEnter(c, {})]_vars

\* Two files were processed, one imported and one refused, by a manager
\* whose monitoring is off and whose start_time is None: the rate is 50
\* and no uptime is reported.
C31_Witness ==
    /\ statistics.total_processed = 2
    /\ statistics.successful_imports = 1
    /\ statistics.start_time = NoTime
    /\ ~is_monitoring
    /\ GetStatistics.success_rate = [num |-> 50, den |-> 1]
    /\ "uptime_seconds" \notin DOMAIN GetStatistics

\* C32: when the store raises on load (missing file, parse error, missing
\* keys) load_configuration returns normally, the configuration is the
\* default policy, and save_configuration is called right after, so that
\* the document on disk is the default policy unless writing it fails.
C32_LoadFallsBackAndSaves ==
    [][\A store \in Stores :
          (LoadConfiguration(store) /\ LoadConfigRaises(store)) =>
              /\ last_call'.ret = "None"
              /\ last_call'.config = GetDefaultConfig
              /\ watch_folders' = GetDefaultConfig.watch_folders
              /\ last_call'.invoked =
                    <<"load_config", "_get_default_config", "save_configuration">>
              /\ ~store.save_raises => saved_folders' = <<>>]_vars

\* The document was found malformed; load_configuration returned, the
\* default policy is the configuration and was written to the disk.
C32_Witness ==
    /\ last_call.op = "load_configuration"
    /\ last_call.ret = "None"
    /\ last_call.store.document = "malformed"
    /\ ~last_call.store.save_raises
    /\ last_call.invoked[3] = "save_configuration"
    /\ watch_folders = <<>>
    /\ saved_folders = <<>>
    /\ last_call.config = GetDefaultConfig

\* C33: in every reachable state successful_imports + failed_imports is at
\* most total_processed, also while reset_statistics runs between the
\* statements of a process_single_file call of another thread.
C33_ResultsWithinTotal ==
    statistics.successful_imports + statistics.failed_imports
        <= statistics.total_processed

\* C34: after any sequence of add_watch_folder, remove_watch_folder,
\* start_monitoring and stop_monitoring calls every path of the observers
\* dict is the path of a watch entry that is enabled, also for an entry
\* added with enabled = False while monitoring is running.
C34_ObserversOnlyForEnabled ==
    calls[1].pc = "idle" =>
        \A p \in DOMAIN observers :
            \E i \in DOMAIN watch_folders :
                watch_folders[i].path = p /\ watch_folders[i].enabled

\* C35: whenever is_monitoring is false and no add_watch_folder,
\* start_monitoring or stop_monitoring call is in progress, no observer is
\* running, for every interleaving of the statements of add_watch_folder
\* and remove_watch_folder with those of start_monitoring and
\* stop_monitoring on another thread.
C35_NoObserverWhenStopped ==
    (/\ ~is_monitoring
     /\ \A c \in Callers : OpOf(c) \in {"", "remove_watch_folder"})
        => running = {}

\* C36: two add_watch_folder calls for one path that run at the same time
\* on two threads leave one watch entry for the path, and one of the two
\* returns True and the other False: the two are never both past the test
\* of the path against the list, after which a call returns True.
C36_ConcurrentAddsOneEntry ==
    /\ \A i, j \in DOMAIN watch_folders :
          watch_folders[i].path = watch_folders[j].path => i = j
    /\ ~(/\ OpOf(1) = "add_watch_folder" /\ OpOf(2) = "add_watch_folder"
         /\ calls[1].entry.path = calls[2].entry.path)

\* C37: within one folder no two flush threads are inside
\* process_single_file for the same path at the same time, also when an
\* event for the path arrives after its entry was drained from the queue.
C37_OneCallPerPath ==
    \A t, u \in TaskIds :
        (/\ t # u
         /\ tasks[t].pc = "calling" /\ tasks[u].pc = "calling"
         /\ tasks[t].handler = tasks[u].handler)
            => CallingFor(t) # CallingFor(u)

\* C38: batch_import_files changes nothing of the manager's statistics
\* (the counters, files_per_category, processing_times, last_activity,
\* start_time), of its watch folders and of its observers, whatever the
\* backend returns or raises for the paths.
C38_BatchLeavesStatistics ==
    [][\A paths \in FramePaths :
          BatchImportFilesOf(paths) =>
              /\ statistics' = statistics
              /\ watch_folders' = watch_folders
              /\ saved_folders' = saved_folders
              /\ observers' = observers
              /\ running' = running
              /\ is_monitoring' = is_monitoring]_vars

\* A batch of one file that imports and one whose import raises has
\* returned, in a manager that is watching a folder and has counted one
\* single file before: the counters still read one.
C38_Witness ==
    /\ last_call.op = "batch_import_files"
    /\ last_call.results.successful = 1
    /\ last_call.results.failed = 1
    /\ last_call.results.details[2].status = "error"
    /\ statistics.total_processed = 1
    /\ statistics.successful_imports = 1
    /\ is_monitoring
    /\ observers # EmptyDict

\* C39: add_watch_folder for a folder path that does not exist returns
\* False with nothing changed: no entry is appended, the configuration is
\* not saved, and no observer is built or started, with monitoring on or
\* off.
C39_AddMissingFolderRefused ==
    [][\A c \in Callers, f \in FolderInputs, cat \in Categories, e \in BOOLEAN,
         fail \in BOOLEAN :
          (/\ AbsPath(f) \notin existing
           /\ AwfEnter(c, f, cat, e, IF fail THEN {AbsPath(f)} ELSE {}))
              => /\ last_call'.op = "add_watch_folder"
                 /\ last_call'.ret = "False"
                 /\ last_call'.msg = "Watch folder does not exist"
                 /\ calls'[c].pc = "idle"
                 /\ watch_folders' = watch_folders
                 /\ saved_folders' = saved_folders
                 /\ observers' = observers
                 /\ running' = running
                 /\ nhandlers' = nhandlers
                 /\ is_monitoring' = is_monitoring
                 /\ statistics' = statistics]_vars

\* add_watch_folder was refused for a folder that is not on the disk
\* while monitoring ran with an observer attached to another folder.
C39_Witness ==
    /\ last_call.op = "add_watch_folder"
    /\ last_call.ret = "False"
    /\ last_call.msg = "Watch folder does not exist"
    /\ is_monitoring
    /\ Len(watch_folders) = 1
    /\ watch_folders[1].path \in DOMAIN observers
    /\ observers[watch_folders[1].path].id \in running

====
